---- MODULE Spec2Model ----
(***************************************************************************)
(* Model of the hyper-watchdog chaincode (chaincode-go/chaincode):         *)
(* smartcontract.go, datamodels.go (data model and policies), utils.go.    *)
(*                                                                         *)
(* Instants and durations are integers counting milliseconds; an instant   *)
(* counts from the first instant of the run.  Go's time.Duration counts    *)
(* nanoseconds: every duration of the chaincode is a whole number of       *)
(* milliseconds, so the unit changes no comparison and no sum.             *)
(*                                                                         *)
(* The ledger stub (GetState, PutState, DelState, GetStateByRange,         *)
(* GetHistoryForKey) is Fabric's: reads see the committed world state, the *)
(* puts and deletes of a transaction are its write set, and the write set  *)
(* is committed, one history entry per key, when the transaction succeeds. *)
(***************************************************************************)
EXTENDS Integers, Sequences, FiniteSets, TLC

VARIABLES world, history, now, last, fabric, watchdog

vars == <<world, history, now, last, fabric, watchdog>>

(***************************************************************************)
(* Bounds of the exploration.                                              *)
(***************************************************************************)
\* how many write sets a run of Spec commits
MaxWrites == 3
\* how many write sets a run of SpecLife, on one chunk id, commits
MaxLifeWrites == 4
\* how many transactions a run of SpecConcurrent commits
MaxConcurrentWrites == 3
\* up to which record of a scan the peer may fail
MaxFaultAt == 2

\* how many assets the pre-populated ledger of SpecScan may hold
MaxScanAssets == 31

\* how many entries an array given to AddChunkWithPolicyBatch may hold
MaxBatch == 2
MaxWatchdogAssets == 3

(***************************************************************************)
(* Program constants.                                                      *)
(***************************************************************************)
\* GetExpiredChunks: "if count == 30 { break }"
PageCap == 30
\* energyPolicyLogic: defaultExpiryTimeString := "31800ms"
ShortExpiry == 31800
\* energyPolicyLogic: thrExpiryTimeString := "127200ms"
LongExpiry == 127200
\* examplePolicyLogic: "24h" and "48h"
Hours24 == 86400000
Hours48 == 172800000
\* one second, for time.Now().Second()
Second == 1000
\* energyPolicyLogic thresholds, in units of 1e-12 (samples count 1e-3, so a
\* squared sample counts 1e-6, and EnergyScale of them count 1e-12)
ThrX == 1819160
ThrY == 1244257
ThrZ == 1095630
EnergyScale == 1000000
\* time.Time{}: Go's zero instant (year 1) precedes every instant of a run
ZeroTime == -1

(***************************************************************************)
(* Error kinds: the messages of the chaincode, named as in the taxonomy.   *)
(***************************************************************************)
OK == "ok"
ErrAlreadyExists == "AlreadyExists"
ErrNotFound == "NotFound"
ErrIdMismatch == "IdMismatch"
ErrDecode == "DecodeError"
ErrIntegrity == "IntegrityMismatch"
ErrPolicyNotFound == "PolicyNotFound"
ErrPolicyNotApplied == "PolicyNotApplied"
ErrExpiryNotComputed == "ExpiryNotComputed"
ErrNotYetExpired == "NotYetExpired"
ErrNoChange == "NoChange"
ErrSizeMismatch == "SizeMismatch"
ErrParse == "ParseError"
ErrFutureDate == "FutureDateRejected"
ErrReadConflict == "MVCC_READ_CONFLICT"
ErrStore == "StoreError"
ErrEmptyHistory == "EmptyHistory"

(***************************************************************************)
(* Inputs.                                                                 *)
(***************************************************************************)
\* chunk ids used by the transactions of Spec
ChunkIds == {"c1", "c2"}

\* policy ids a caller may name: the two registered ones, and one that is not
ExamplePolicyId == "example_policy_v1"
EnergyPolicyId == "signal_energy_policy_v1"
PolicyInputs == {ExamplePolicyId, EnergyPolicyId, "no_such_policy"}

\* a sensor whose three axes hold the same samples
SensorOf(s) == [x |-> s, y |-> s, z |-> s]

\* The JSON text inside a transport string: its members in textual order, or
\* no JSON at all.  "B64_ZERO" holds all-zero samples, "B64_HIGH" one loud
\* sensor, "B64_ZERO_ALT" the members of "B64_ZERO" in another order with a
\* member the chaincode does not know, "B64_BAD" is not decodable.
TransportText(enc) ==
    CASE enc = "B64_ZERO" ->
           [valid |-> TRUE,
            members |-> << <<"id", <<99, 49>>>>,
                           <<"0", SensorOf(<<0, 0>>)>>, <<"1", SensorOf(<<0, 0>>)>>,
                           <<"2", SensorOf(<<0, 0>>)>>, <<"3", SensorOf(<<0, 0>>)>>,
                           <<"4", SensorOf(<<0, 0>>)>>, <<"5", SensorOf(<<0, 0>>)>> >>]
      [] enc = "B64_ZERO_ALT" ->
           [valid |-> TRUE,
            members |-> << <<"5", SensorOf(<<0, 0>>)>>, <<"4", SensorOf(<<0, 0>>)>>,
                           <<"note", SensorOf(<<2>>)>>,
                           <<"3", SensorOf(<<0, 0>>)>>, <<"2", SensorOf(<<0, 0>>)>>,
                           <<"1", SensorOf(<<0, 0>>)>>, <<"0", SensorOf(<<0, 0>>)>>,
                           <<"id", <<99, 49>>>> >>]
      [] enc = "B64_HIGH" ->
           [valid |-> TRUE,
            members |-> << <<"id", <<99, 49>>>>,
                           <<"0", SensorOf(<<0, 0>>)>>, <<"1", SensorOf(<<0, 0>>)>>,
                           <<"2", SensorOf(<<0, 0>>)>>, <<"3", SensorOf(<<2, 2>>)>>,
                           <<"4", SensorOf(<<0, 0>>)>>, <<"5", SensorOf(<<0, 0>>)>> >>]
      [] OTHER -> [valid |-> FALSE, members |-> <<>>]

ChunkInputs == {"B64_ZERO", "B64_ZERO_ALT", "B64_HIGH", "B64_BAD"}

(***************************************************************************)
(* Data model (datamodels.go) and utilities (utils.go).                    *)
(***************************************************************************)
\* SensorData{} and ChunkData{}: Go's zero values (nil slices, empty string)
ZeroSensorData == [x |-> <<>>, y |-> <<>>, z |-> <<>>]

\* the value json.Decode gives a field: that of the last member with the
\* field's key, or the field's zero value when no member has it
FieldOf(members, key, zero) ==
    LET at == {i \in 1..Len(members) : members[i][1] = key}
    IN  IF at = {} THEN zero
        ELSE members[CHOOSE i \in at : \A j \in at : j <= i][2]

\* json.Decode into a ChunkData: known members fill their fields, unknown
\* members are dropped
DecodeChunkData(members) ==
    [Id      |-> FieldOf(members, "id", <<>>),
     Sensor0 |-> FieldOf(members, "0", ZeroSensorData),
     Sensor1 |-> FieldOf(members, "1", ZeroSensorData),
     Sensor2 |-> FieldOf(members, "2", ZeroSensorData),
     Sensor3 |-> FieldOf(members, "3", ZeroSensorData),
     Sensor4 |-> FieldOf(members, "4", ZeroSensorData),
     Sensor5 |-> FieldOf(members, "5", ZeroSensorData)]

Base64DecodeJsonOf(enc) ==
    LET text == TransportText(enc)
    IN  IF text.valid
        THEN [err |-> OK, chunk |-> DecodeChunkData(text.members)]
        ELSE [err |-> ErrDecode, chunk |-> DecodeChunkData(<<>>)]

\* the decoding of every input, computed once
DecodeTable == [enc \in ChunkInputs |-> Base64DecodeJsonOf(enc)]

base64DecodeJson(enc) == DecodeTable[enc]

\* the chunk data the inputs decode to
DecodedChunks == {DecodeTable[enc].chunk : enc \in ChunkInputs}

\* a JSON string or array as bytes: its length, then its elements
LenPrefixed(s) == <<Len(s)>> \o s

MarshalSensor(sd) == LenPrefixed(sd.x) \o LenPrefixed(sd.y) \o LenPrefixed(sd.z)

\* json.Marshal of a ChunkData: the fields in the order of the struct
MarshalChunkData(d) ==
    LenPrefixed(d.Id) \o MarshalSensor(d.Sensor0) \o MarshalSensor(d.Sensor1)
        \o MarshalSensor(d.Sensor2) \o MarshalSensor(d.Sensor3)
        \o MarshalSensor(d.Sensor4) \o MarshalSensor(d.Sensor5)

\* the digest of a byte string: a fixed-width checksum of every byte weighted
\* by its place, standing for md5.Sum printed with %x
RECURSIVE WeightedSum(_, _, _)
WeightedSum(bytes, lo, hi) ==
    IF lo > hi THEN 0
    ELSE IF lo = hi THEN (bytes[lo] + 1) * (2 * lo + 1)
    ELSE LET mid == (lo + hi) \div 2
         IN  WeightedSum(bytes, lo, mid) + WeightedSum(bytes, mid + 1, hi)

md5Hash(data) == (WeightedSum(data, 1, Len(data)) + 7 * Len(data)) % 65521

HashOf(d) == md5Hash(MarshalChunkData(d))

\* the hash of every decoded chunk, computed once
HashTable == [d \in DecodedChunks |-> HashOf(d)]

\* (d *ChunkData) hash()
hash(d) == HashTable[d]

(***************************************************************************)
(* Policies (datamodels.go).                                               *)
(***************************************************************************)
RECURSIVE EnergyFrom(_, _)
EnergyFrom(in, i) ==
    IF i > Len(in) THEN 0 ELSE in[i] * in[i] + EnergyFrom(in, i + 1)

\* the sum of the squared absolute samples
computeSignalEnergy(in) == EnergyFrom(in, 1)

\* energy / float64(len(in)), kept as the quotient's two terms: 0/0 is NaN
computeSignalMeanEnergy(in) == [num |-> computeSignalEnergy(in), den |-> Len(in)]

\* variant: the comparison is val < thr
ExceedsReversed(val, thr) == val.den # 0 /\ val.num * EnergyScale < thr * val.den

\* variant: a value that is not a number counts as above the threshold
ExceedsOrNaN(val, thr) == val.den = 0 \/ val.num * EnergyScale > thr * val.den

\* val > thr on float64: false when val is NaN
Exceeds(val, thr) == val.den # 0 /\ val.num * EnergyScale > thr * val.den

AvailablePolicies == {ExamplePolicyId, EnergyPolicyId}

\* variant: 48h when the clock's second is odd
examplePolicyLogicOddLong(d, clock) ==
    [err |-> OK,
     period |-> IF (clock \div Second) % 2 = 1 THEN Hours48 ELSE Hours24]

\* the clock's second is even: 48h, else 24h
examplePolicyLogic(d, clock) ==
    [err |-> OK,
     period |-> IF (clock \div Second) % 2 = 0 THEN Hours48 ELSE Hours24]

EnergyArray(d) ==
    << computeSignalMeanEnergy(d.Sensor0.x), computeSignalMeanEnergy(d.Sensor0.y),
       computeSignalMeanEnergy(d.Sensor0.z),
       computeSignalMeanEnergy(d.Sensor1.x), computeSignalMeanEnergy(d.Sensor1.y),
       computeSignalMeanEnergy(d.Sensor1.z),
       computeSignalMeanEnergy(d.Sensor2.x), computeSignalMeanEnergy(d.Sensor2.y),
       computeSignalMeanEnergy(d.Sensor2.z),
       computeSignalMeanEnergy(d.Sensor3.x), computeSignalMeanEnergy(d.Sensor3.y),
       computeSignalMeanEnergy(d.Sensor3.z),
       computeSignalMeanEnergy(d.Sensor4.x), computeSignalMeanEnergy(d.Sensor4.y),
       computeSignalMeanEnergy(d.Sensor4.z),
       computeSignalMeanEnergy(d.Sensor5.x), computeSignalMeanEnergy(d.Sensor5.y),
       computeSignalMeanEnergy(d.Sensor5.z) >>

\* the threshold of the axis the loop's j selects
AxisThreshold(j) == IF j = 0 THEN ThrX ELSE IF j = 1 THEN ThrY ELSE ThrZ

\* variant: j is never set back to 0
RECURSIVE EnergyLoopWithoutReset(_, _, _, _)
EnergyLoopWithoutReset(energyArray, i, j, expiryTime) ==
    IF i > Len(energyArray) THEN expiryTime
    ELSE LET val == energyArray[i]
             chosen == IF \/ j = 0 /\ Exceeds(val, ThrX)
                          \/ j = 1 /\ Exceeds(val, ThrY)
                          \/ j = 2 /\ Exceeds(val, ThrZ)
                       THEN LongExpiry ELSE expiryTime
         IN  EnergyLoopWithoutReset(energyArray, i + 1, j + 1, chosen)

\* the loop of energyPolicyLogic from value i on: j counts the axis, and is
\* set back to 0 when it reaches 3
RECURSIVE EnergyLoop(_, _, _, _)
EnergyLoop(energyArray, i, j, expiryTime) ==
    IF i > Len(energyArray) THEN expiryTime
    ELSE LET val == energyArray[i]
             chosen == IF \/ j = 0 /\ Exceeds(val, ThrX)
                          \/ j = 1 /\ Exceeds(val, ThrY)
                          \/ j = 2 /\ Exceeds(val, ThrZ)
                       THEN LongExpiry ELSE expiryTime
         IN  EnergyLoop(energyArray, i + 1, IF j + 1 = 3 THEN 0 ELSE j + 1, chosen)

EnergyPeriodOf(d) == EnergyLoop(EnergyArray(d), 1, 0, ShortExpiry)

\* the energy policy's result for every decoded chunk, computed once
EnergyTable == [d \in DecodedChunks |-> EnergyPeriodOf(d)]

energyPolicyLogic(d) ==
    [err |-> OK,
     period |-> IF d \in DecodedChunks THEN EnergyTable[d] ELSE EnergyPeriodOf(d)]

\* getPolicy: the registry's entry, or an error for an id that is not in it
getPolicy(id) == IF id \in AvailablePolicies THEN OK ELSE ErrPolicyNotFound

\* variant: an id that is not registered is given the energy policy
applyPolicyByIdDefaulting(d, policyId, clock) ==
    IF policyId = ExamplePolicyId THEN examplePolicyLogic(d, clock)
    ELSE energyPolicyLogic(d)

\* (d *ChunkData) applyPolicyById(policyId); clock is the peer's time.Now()
applyPolicyById(d, policyId, clock) ==
    IF getPolicy(policyId) # OK THEN [err |-> ErrPolicyNotFound, period |-> 0]
    ELSE IF policyId = ExamplePolicyId THEN examplePolicyLogic(d, clock)
    ELSE energyPolicyLogic(d)

(***************************************************************************)
(* The ledger stub, as the chaincode uses it.  A context holds the         *)
(* committed world state and history, the transaction's timestamp and the  *)
(* executing peer's clock.  World-state values are bytes: Nil is the nil   *)
(* slice GetState returns for an absent key.                               *)
(***************************************************************************)
Nil == <<>>

GetState(ctx, key) == IF key \in DOMAIN ctx.world THEN ctx.world[key] ELSE Nil

\* the entries of a write set
PutState(key, bytes) == [key |-> key, value |-> bytes, isDelete |-> FALSE]
DelState(key) == [key |-> key, value |-> Nil, isDelete |-> TRUE]

\* every key of the namespace in the order GetStateByRange("", "") yields them
ScanKey(i) == IF i < 10 THEN "k0" \o ToString(i) ELSE "k" \o ToString(i)

KeySpace == <<"c1", "c2">> \o [i \in 1..MaxScanAssets |-> ScanKey(i)]

\* GetStateByRange("", ""): the live keys in key order, each with its bytes
GetStateByRange(ctx) ==
    LET live(k) == k \in DOMAIN ctx.world
        keys == SelectSeq(KeySpace, live)
    IN  [i \in 1..Len(keys) |-> [key |-> keys[i], value |-> ctx.world[keys[i]]]]

\* GetHistoryForKey: the committed entries of the key, oldest first
GetHistoryForKey(ctx, key) ==
    IF key \in DOMAIN ctx.history THEN ctx.history[key] ELSE <<>>

(***************************************************************************)
(* Asset and its JSON form (smartcontract.go).                             *)
(***************************************************************************)
\* variant: the expiry date is left out of the JSON form
MarshalAssetWithoutDate(a) ==
    <<a.AppliedPolicyId, a.ChunkId, a.DataHash, ZeroTime, a.ExpiryPeriod>>

\* json.Marshal of an Asset: the five fields in the order of the struct
MarshalAsset(a) ==
    <<a.AppliedPolicyId, a.ChunkId, a.DataHash, a.ExpiryDate, a.ExpiryPeriod>>

\* json.Unmarshal into an Asset
UnmarshalAsset(bytes) ==
    [AppliedPolicyId |-> bytes[1], ChunkId |-> bytes[2], DataHash |-> bytes[3],
     ExpiryDate |-> bytes[4], ExpiryPeriod |-> bytes[5]]

\* Asset{}
ZeroAsset ==
    [AppliedPolicyId |-> "", ChunkId |-> "", DataHash |-> 0,
     ExpiryDate |-> ZeroTime, ExpiryPeriod |-> 0]

\* what an operation gives back: its error (OK for nil), the puts and deletes
\* it issued, in order, and the value it returns
NoRet == <<>>
Result(e, w, r) == [err |-> e, writes |-> w, ret |-> r]
Fail(e) == Result(e, <<>>, NoRet)

(***************************************************************************)
(* Private transactions (smartcontract.go).                                *)
(***************************************************************************)
assetExists(ctx, id) == GetState(ctx, id) # Nil

createAsset(ctx, a) ==
    IF assetExists(ctx, a.ChunkId) THEN Fail(ErrAlreadyExists)
    ELSE Result(OK, <<PutState(a.ChunkId, MarshalAsset(a))>>, NoRet)

readAsset(ctx, id) ==
    LET assetJSON == GetState(ctx, id)
    IN  IF assetJSON = Nil THEN [err |-> ErrNotFound, asset |-> ZeroAsset]
        ELSE [err |-> OK, asset |-> UnmarshalAsset(assetJSON)]

\* variant: the existence check comes before the id comparison
updateAssetExistenceFirst(ctx, id, a) ==
    IF readAsset(ctx, id).err # OK THEN Fail(ErrNotFound)
    ELSE IF a.ChunkId # id THEN Fail(ErrIdMismatch)
    ELSE Result(OK, <<PutState(id, MarshalAsset(a))>>, NoRet)

updateAsset(ctx, id, a) ==
    IF a.ChunkId # id THEN Fail(ErrIdMismatch)
    ELSE IF readAsset(ctx, id).err # OK THEN Fail(ErrNotFound)
    ELSE Result(OK, <<PutState(id, MarshalAsset(a))>>, NoRet)

deleteAsset(ctx, id) ==
    IF ~assetExists(ctx, id) THEN Fail(ErrNotFound)
    ELSE Result(OK, <<DelState(id)>>, NoRet)

\* variant: an entry without payload gives no record
getAssetHistorySkippingEmpty(ctx, id) ==
    LET hasPayload(e) == Len(e.value) > 0
        it == SelectSeq(GetHistoryForKey(ctx, id), hasPayload)
    IN  [i \in 1..Len(it) |->
            [Record |-> UnmarshalAsset(it[i].value),
             Timestamp |-> it[i].timestamp,
             IsDelete |-> it[i].isDelete]]

\* one HistoryQueryResult per entry: an entry without payload gives an asset
\* with only the id
getAssetHistory(ctx, id) ==
    LET it == GetHistoryForKey(ctx, id)
    IN  [i \in 1..Len(it) |->
            [Record |-> IF Len(it[i].value) > 0 THEN UnmarshalAsset(it[i].value)
                        ELSE [ZeroAsset EXCEPT !.ChunkId = id],
             Timestamp |-> it[i].timestamp,
             IsDelete |-> it[i].isDelete]]

\* variant: the date is stored in a fresh asset that carries only the id
updateAssetExpiryDateInFresh(ctx, id, expiryDate) ==
    LET r == readAsset(ctx, id)
    IN  IF r.err # OK THEN Fail(r.err)
        ELSE updateAsset(ctx, id,
                [ZeroAsset EXCEPT !.ChunkId = id, !.ExpiryDate = expiryDate])

updateAssetExpiryDate(ctx, id, expiryDate) ==
    LET r == readAsset(ctx, id)
    IN  IF r.err # OK THEN Fail(r.err)
        ELSE updateAsset(ctx, id, [r.asset EXCEPT !.ExpiryDate = expiryDate])

\* variant: the creation time read from the latest entry of the history
getAssetCreationTimeOfLatest(ctx, id) ==
    LET h == getAssetHistory(ctx, id)
    IN  IF Len(h) = 0 THEN [err |-> ErrEmptyHistory, time |-> ZeroTime]
        ELSE [err |-> OK, time |-> h[Len(h)].Timestamp]

getAssetCreationTime(ctx, id) ==
    LET h == getAssetHistory(ctx, id)
    IN  IF Len(h) = 0 THEN [err |-> ErrEmptyHistory, time |-> ZeroTime]
        ELSE [err |-> OK, time |-> h[1].Timestamp]

\* creationTime.Add(expiryPeriod)
computeExpiryDate(ctx, id, expiryPeriod) ==
    LET c == getAssetCreationTime(ctx, id)
    IN  IF c.err # OK THEN [err |-> c.err, time |-> ZeroTime]
        ELSE [err |-> OK, time |-> c.time + expiryPeriod]

(***************************************************************************)
(* Public transactions (smartcontract.go).                                 *)
(***************************************************************************)
\* variant: the data is decoded before the id is looked up
AddChunkDecodingFirst(ctx, chunkId, chunkDataBase64) ==
    LET dec == base64DecodeJson(chunkDataBase64)
    IN  IF dec.err # OK THEN Fail(ErrDecode)
        ELSE IF assetExists(ctx, chunkId) THEN Fail(ErrAlreadyExists)
        ELSE createAsset(ctx,
                [AppliedPolicyId |-> "",
                 ChunkId         |-> chunkId,
                 DataHash        |-> hash(dec.chunk),
                 ExpiryDate      |-> ZeroTime,
                 ExpiryPeriod    |-> 0])

\* variant: the transaction's timestamp is stored as the expiry date
AddChunkDated(ctx, chunkId, chunkDataBase64) ==
    IF assetExists(ctx, chunkId) THEN Fail(ErrAlreadyExists)
    ELSE LET dec == base64DecodeJson(chunkDataBase64)
         IN  IF dec.err # OK THEN Fail(ErrDecode)
             ELSE createAsset(ctx,
                     [AppliedPolicyId |-> "",
                      ChunkId         |-> chunkId,
                      DataHash        |-> hash(dec.chunk),
                      ExpiryDate      |-> ctx.txTime,
                      ExpiryPeriod    |-> 0])

AddChunk(ctx, chunkId, chunkDataBase64) ==
    IF assetExists(ctx, chunkId) THEN Fail(ErrAlreadyExists)
    ELSE LET dec == base64DecodeJson(chunkDataBase64)
         IN  IF dec.err # OK THEN Fail(ErrDecode)
             ELSE createAsset(ctx,
                     [AppliedPolicyId |-> "",
                      ChunkId         |-> chunkId,
                      DataHash        |-> hash(dec.chunk),
                      ExpiryDate      |-> ZeroTime,
                      ExpiryPeriod    |-> 0])

\* variant: the expiry date is computed when the asset is created
AddChunkWithPolicyDated(ctx, chunkId, chunkDataBase64, policyId) ==
    IF assetExists(ctx, chunkId) THEN Fail(ErrAlreadyExists)
    ELSE LET dec == base64DecodeJson(chunkDataBase64)
         IN  IF dec.err # OK THEN Fail(ErrDecode)
             ELSE LET pol == applyPolicyById(dec.chunk, policyId, ctx.clock)
                  IN  IF pol.err # OK THEN Fail(pol.err)
                      ELSE createAsset(ctx,
                              [AppliedPolicyId |-> policyId,
                               ChunkId         |-> chunkId,
                               DataHash        |-> hash(dec.chunk),
                               ExpiryDate      |-> ctx.txTime + pol.period,
                               ExpiryPeriod    |-> pol.period])

AddChunkWithPolicy(ctx, chunkId, chunkDataBase64, policyId) ==
    IF assetExists(ctx, chunkId) THEN Fail(ErrAlreadyExists)
    ELSE LET dec == base64DecodeJson(chunkDataBase64)
         IN  IF dec.err # OK THEN Fail(ErrDecode)
             ELSE LET pol == applyPolicyById(dec.chunk, policyId, ctx.clock)
                  IN  IF pol.err # OK THEN Fail(pol.err)
                      ELSE createAsset(ctx,
                              [AppliedPolicyId |-> policyId,
                               ChunkId         |-> chunkId,
                               DataHash        |-> hash(dec.chunk),
                               ExpiryDate      |-> ZeroTime,
                               ExpiryPeriod    |-> pol.period])

\* variant: the policy is run before the hashes are compared
ApplyPolicyBeforeHashCheck(ctx, chunkId, chunkDataBase64, policyId) ==
    LET r == readAsset(ctx, chunkId)
    IN  IF r.err # OK THEN Fail(r.err)
        ELSE LET dec == base64DecodeJson(chunkDataBase64)
             IN  IF dec.err # OK THEN Fail(ErrDecode)
                 ELSE LET pol == applyPolicyById(dec.chunk, policyId, ctx.clock)
                      IN  IF pol.err # OK THEN Fail(pol.err)
                          ELSE IF r.asset.DataHash # hash(dec.chunk) THEN Fail(ErrIntegrity)
                          ELSE LET exp == computeExpiryDate(ctx, chunkId, pol.period)
                               IN  IF exp.err # OK THEN Fail(exp.err)
                                   ELSE updateAsset(ctx, chunkId,
                                           [r.asset EXCEPT
                                              !.AppliedPolicyId = policyId,
                                              !.ExpiryDate = exp.time,
                                              !.ExpiryPeriod = pol.period])

\* variant: the expiry period the asset held is kept
ApplyPolicyKeepingPeriod(ctx, chunkId, chunkDataBase64, policyId) ==
    LET r == readAsset(ctx, chunkId)
    IN  IF r.err # OK THEN Fail(r.err)
        ELSE LET dec == base64DecodeJson(chunkDataBase64)
             IN  IF dec.err # OK THEN Fail(ErrDecode)
                 ELSE IF r.asset.DataHash # hash(dec.chunk) THEN Fail(ErrIntegrity)
                 ELSE LET pol == applyPolicyById(dec.chunk, policyId, ctx.clock)
                      IN  IF pol.err # OK THEN Fail(pol.err)
                          ELSE LET exp == computeExpiryDate(ctx, chunkId, pol.period)
                               IN  IF exp.err # OK THEN Fail(exp.err)
                                   ELSE updateAsset(ctx, chunkId,
                                           [r.asset EXCEPT
                                              !.AppliedPolicyId = policyId,
                                              !.ExpiryDate = exp.time])

ApplyPolicy(ctx, chunkId, chunkDataBase64, policyId) ==
    LET r == readAsset(ctx, chunkId)
    IN  IF r.err # OK THEN Fail(r.err)
        ELSE LET dec == base64DecodeJson(chunkDataBase64)
             IN  IF dec.err # OK THEN Fail(ErrDecode)
                 ELSE IF r.asset.DataHash # hash(dec.chunk) THEN Fail(ErrIntegrity)
                 ELSE LET pol == applyPolicyById(dec.chunk, policyId, ctx.clock)
                      IN  IF pol.err # OK THEN Fail(pol.err)
                          ELSE LET exp == computeExpiryDate(ctx, chunkId, pol.period)
                               IN  IF exp.err # OK THEN Fail(exp.err)
                                   ELSE updateAsset(ctx, chunkId,
                                           [r.asset EXCEPT
                                              !.AppliedPolicyId = policyId,
                                              !.ExpiryDate = exp.time,
                                              !.ExpiryPeriod = pol.period])

\* variant: the policy id and the expiry period are not tested
UpdateChunkExpiryDateUntested(ctx, id) ==
    LET r == readAsset(ctx, id)
    IN  IF r.err # OK THEN Fail(r.err)
        ELSE LET c == getAssetCreationTime(ctx, id)
             IN  IF c.err # OK THEN Fail(c.err)
                 ELSE LET expiryDate == c.time + r.asset.ExpiryPeriod
                      IN  IF expiryDate = r.asset.ExpiryDate THEN Fail(ErrNoChange)
                          ELSE updateAssetExpiryDate(ctx, id, expiryDate)

\* variant: the recomputed date is stored without comparing it to the old one
UpdateChunkExpiryDateAlways(ctx, id) ==
    LET r == readAsset(ctx, id)
    IN  IF r.err # OK THEN Fail(r.err)
        ELSE IF r.asset.AppliedPolicyId = "" \/ r.asset.ExpiryPeriod = 0
        THEN Fail(ErrPolicyNotApplied)
        ELSE LET c == getAssetCreationTime(ctx, id)
             IN  IF c.err # OK THEN Fail(c.err)
                 ELSE updateAssetExpiryDate(ctx, id, c.time + r.asset.ExpiryPeriod)

UpdateChunkExpiryDate(ctx, id) ==
    LET r == readAsset(ctx, id)
    IN  IF r.err # OK THEN Fail(r.err)
        ELSE IF r.asset.AppliedPolicyId = "" \/ r.asset.ExpiryPeriod = 0
        THEN Fail(ErrPolicyNotApplied)
        ELSE LET c == getAssetCreationTime(ctx, id)
             IN  IF c.err # OK THEN Fail(c.err)
                 ELSE LET expiryDate == c.time + r.asset.ExpiryPeriod
                      IN  IF expiryDate = r.asset.ExpiryDate THEN Fail(ErrNoChange)
                          ELSE updateAssetExpiryDate(ctx, id, expiryDate)

\* time.Parse(time.RFC3339, s): the instant a well-formed string names is its
\* local date-time less its zone offset
ParseRFC3339(s) ==
    IF s.form = "rfc3339" THEN [err |-> OK, time |-> s.wall - s.offset]
    ELSE [err |-> ErrParse, time |-> ZeroTime]

\* variant: the date is compared to the cutoff without testing that it is set
IsExpiredBeforeUntested(asset, givenExpiryTime) ==
    asset.ExpiryDate < givenExpiryTime

\* the record is expired as of the cutoff: its date is set and before it
IsExpiredBefore(asset, givenExpiryTime) ==
    asset.ExpiryDate # ZeroTime /\ asset.ExpiryDate < givenExpiryTime

\* the scan loop of GetExpiredChunks from record i on; count is declared in
\* the loop's body, so every iteration starts it at 0
RECURSIVE ScanExpired(_, _, _, _)
ScanExpired(records, i, assets, givenExpiryTime) ==
    IF i > Len(records) THEN assets
    ELSE LET asset == UnmarshalAsset(records[i].value)
             count == 0
         IN  IF IsExpiredBefore(asset, givenExpiryTime)
             THEN IF count + 1 = PageCap THEN Append(assets, asset)
                  ELSE ScanExpired(records, i + 1, Append(assets, asset),
                                   givenExpiryTime)
             ELSE ScanExpired(records, i + 1, assets, givenExpiryTime)

\* variant: a cutoff that equals the present instant is refused too
GetExpiredChunksBeforeNow(ctx, expiryDateRFC3339) ==
    LET p == ParseRFC3339(expiryDateRFC3339)
    IN  IF p.err # OK THEN Fail(ErrParse)
        ELSE IF p.time >= ctx.clock THEN Fail(ErrFutureDate)
        ELSE Result(OK, <<>>, ScanExpired(GetStateByRange(ctx), 1, <<>>, p.time))

\* variant: the scan computes and stores the expiry date of the first asset
\* that has a policy and no date
GetExpiredChunksStoringDate(ctx, expiryDateRFC3339) ==
    LET p == ParseRFC3339(expiryDateRFC3339)
        records == GetStateByRange(ctx)
        undated == {i \in 1..Len(records) :
                      /\ UnmarshalAsset(records[i].value).ExpiryDate = ZeroTime
                      /\ UnmarshalAsset(records[i].value).AppliedPolicyId # ""}
        asset == UnmarshalAsset(records[CHOOSE i \in undated : TRUE].value)
    IN  IF p.err # OK THEN Fail(ErrParse)
        ELSE IF p.time > ctx.clock THEN Fail(ErrFutureDate)
        ELSE Result(OK,
                    IF undated = {} THEN <<>>
                    ELSE updateAssetExpiryDate(ctx, asset.ChunkId,
                            computeExpiryDate(ctx, asset.ChunkId,
                                              asset.ExpiryPeriod).time).writes,
                    ScanExpired(records, 1, <<>>, p.time))

GetExpiredChunks(ctx, expiryDateRFC3339) ==
    LET p == ParseRFC3339(expiryDateRFC3339)
    IN  IF p.err # OK THEN Fail(ErrParse)
        ELSE IF p.time > ctx.clock THEN Fail(ErrFutureDate)
        ELSE Result(OK, <<>>, ScanExpired(GetStateByRange(ctx), 1, <<>>, p.time))

\* variant: the delete is issued before the expiry date is compared to the clock
DeleteChunkIfExpiredDeletingFirst(ctx, chunkId) ==
    LET r == readAsset(ctx, chunkId)
    IN  IF r.err # OK THEN Fail(r.err)
        ELSE IF r.asset.AppliedPolicyId = "" THEN Fail(ErrPolicyNotApplied)
        ELSE IF r.asset.ExpiryDate = ZeroTime THEN Fail(ErrExpiryNotComputed)
        ELSE LET del == deleteAsset(ctx, chunkId)
             IN  IF r.asset.ExpiryDate > ctx.clock
                 THEN Result(ErrNotYetExpired, del.writes, NoRet)
                 ELSE del

\* variant: the expiry date is tested before the policy id
DeleteChunkIfExpiredDateFirst(ctx, chunkId) ==
    LET r == readAsset(ctx, chunkId)
    IN  IF r.err # OK THEN Fail(r.err)
        ELSE IF r.asset.ExpiryDate = ZeroTime THEN Fail(ErrExpiryNotComputed)
        ELSE IF r.asset.AppliedPolicyId = "" THEN Fail(ErrPolicyNotApplied)
        ELSE IF r.asset.ExpiryDate > ctx.clock THEN Fail(ErrNotYetExpired)
        ELSE deleteAsset(ctx, chunkId)

\* variant: the expiry date is not tested for being set
DeleteChunkIfExpiredUnsetDate(ctx, chunkId) ==
    LET r == readAsset(ctx, chunkId)
    IN  IF r.err # OK THEN Fail(r.err)
        ELSE IF r.asset.AppliedPolicyId = "" THEN Fail(ErrPolicyNotApplied)
        ELSE IF r.asset.ExpiryDate > ctx.clock THEN Fail(ErrNotYetExpired)
        ELSE deleteAsset(ctx, chunkId)

\* variant: the expiry date is compared to the transaction's timestamp of the
\* asset's first entry instead of the clock
DeleteChunkIfExpiredAtCreation(ctx, chunkId) ==
    LET r == readAsset(ctx, chunkId)
    IN  IF r.err # OK THEN Fail(r.err)
        ELSE IF r.asset.AppliedPolicyId = "" THEN Fail(ErrPolicyNotApplied)
        ELSE IF r.asset.ExpiryDate = ZeroTime THEN Fail(ErrExpiryNotComputed)
        ELSE IF r.asset.ExpiryDate > getAssetCreationTime(ctx, chunkId).time
        THEN Fail(ErrNotYetExpired)
        ELSE deleteAsset(ctx, chunkId)

DeleteChunkIfExpired(ctx, chunkId) ==
    LET r == readAsset(ctx, chunkId)
    IN  IF r.err # OK THEN Fail(r.err)
        ELSE IF r.asset.AppliedPolicyId = "" THEN Fail(ErrPolicyNotApplied)
        ELSE IF r.asset.ExpiryDate = ZeroTime THEN Fail(ErrExpiryNotComputed)
        ELSE IF r.asset.ExpiryDate > ctx.clock THEN Fail(ErrNotYetExpired)
        ELSE deleteAsset(ctx, chunkId)

\* variant: an entry that fails a check is left out and the loop goes on
RECURSIVE CheckBatchSkipping(_, _, _, _, _, _)
CheckBatchSkipping(ctx, chunkId, chunkDataBase64, policyId, i, newAssets) ==
    IF i > Len(chunkId) THEN [err |-> OK, assets |-> newAssets]
    ELSE LET dec == base64DecodeJson(chunkDataBase64[i])
             pol == applyPolicyById(dec.chunk, policyId[i], ctx.clock)
         IN  IF assetExists(ctx, chunkId[i]) \/ dec.err # OK \/ pol.err # OK
             THEN CheckBatchSkipping(ctx, chunkId, chunkDataBase64, policyId, i + 1,
                     newAssets)
             ELSE CheckBatchSkipping(ctx, chunkId, chunkDataBase64, policyId, i + 1,
                     Append(newAssets,
                        [AppliedPolicyId |-> policyId[i],
                         ChunkId         |-> chunkId[i],
                         DataHash        |-> hash(dec.chunk),
                         ExpiryDate      |-> ZeroTime,
                         ExpiryPeriod    |-> pol.period]))

\* the first loop of AddChunkWithPolicyBatch from entry i on: every entry is
\* checked against the committed state and its asset assembled
RECURSIVE CheckBatch(_, _, _, _, _, _)
CheckBatch(ctx, chunkId, chunkDataBase64, policyId, i, newAssets) ==
    IF i > Len(chunkId) THEN [err |-> OK, assets |-> newAssets]
    ELSE IF assetExists(ctx, chunkId[i])
    THEN [err |-> ErrAlreadyExists, assets |-> newAssets]
    ELSE LET dec == base64DecodeJson(chunkDataBase64[i])
         IN  IF dec.err # OK THEN [err |-> ErrDecode, assets |-> newAssets]
             ELSE LET pol == applyPolicyById(dec.chunk, policyId[i], ctx.clock)
                  IN  IF pol.err # OK THEN [err |-> pol.err, assets |-> newAssets]
                      ELSE CheckBatch(ctx, chunkId, chunkDataBase64, policyId, i + 1,
                              Append(newAssets,
                                 [AppliedPolicyId |-> policyId[i],
                                  ChunkId         |-> chunkId[i],
                                  DataHash        |-> hash(dec.chunk),
                                  ExpiryDate      |-> ZeroTime,
                                  ExpiryPeriod    |-> pol.period]))

\* variant: createAsset sees the puts the transaction has issued so far
RECURSIVE WriteBatchSeeingPuts(_, _, _, _)
WriteBatchSeeingPuts(ctx, newAssets, i, writes) ==
    IF i > Len(newAssets) THEN Result(OK, writes, NoRet)
    ELSE LET put == {writes[k].key : k \in 1..Len(writes)}
             seen == [ctx EXCEPT !.world =
                        [k \in DOMAIN ctx.world \cup put |->
                            IF k \in put
                            THEN writes[CHOOSE j \in 1..Len(writes) :
                                           writes[j].key = k].value
                            ELSE ctx.world[k]]]
             c == createAsset(seen, newAssets[i])
         IN  IF c.err # OK THEN Result(c.err, writes, NoRet)
             ELSE WriteBatchSeeingPuts(ctx, newAssets, i + 1, writes \o c.writes)

\* the second loop of AddChunkWithPolicyBatch from asset i on: createAsset of
\* each assembled asset; writes are the puts issued so far
RECURSIVE WriteBatch(_, _, _, _)
WriteBatch(ctx, newAssets, i, writes) ==
    IF i > Len(newAssets) THEN Result(OK, writes, NoRet)
    ELSE LET c == createAsset(ctx, newAssets[i])
         IN  IF c.err # OK THEN Result(c.err, writes, NoRet)
             ELSE WriteBatch(ctx, newAssets, i + 1, writes \o c.writes)

\* variant: arrays of different lengths are cut to the shortest of them
AddChunkWithPolicyBatchCutting(ctx, chunkId, chunkDataBase64, policyId) ==
    LET shorter(a, b) == IF a < b THEN a ELSE b
        n == shorter(Len(chunkId), shorter(Len(chunkDataBase64), Len(policyId)))
        chk == CheckBatch(ctx, SubSeq(chunkId, 1, n), SubSeq(chunkDataBase64, 1, n),
                          SubSeq(policyId, 1, n), 1, <<>>)
    IN  IF chk.err # OK THEN Fail(chk.err)
        ELSE WriteBatch(ctx, chk.assets, 1, <<>>)

AddChunkWithPolicyBatch(ctx, chunkId, chunkDataBase64, policyId) ==
    IF Len(chunkId) # Len(chunkDataBase64) \/ Len(chunkId) # Len(policyId)
    THEN Fail(ErrSizeMismatch)
    ELSE LET chk == CheckBatch(ctx, chunkId, chunkDataBase64, policyId, 1, <<>>)
         IN  IF chk.err # OK THEN Fail(chk.err)
             ELSE WriteBatch(ctx, chk.assets, 1, <<>>)

\* variant: the scan stops at the cap of GetExpiredChunks
GetAllAssetsCapped(ctx) ==
    LET records == GetStateByRange(ctx)
        n == IF Len(records) < PageCap THEN Len(records) ELSE PageCap
    IN  Result(OK, <<>>, [i \in 1..n |-> UnmarshalAsset(records[i].value)])

\* GetAllAssets: every record of the range scan, decoded
GetAllAssets(ctx) ==
    LET records == GetStateByRange(ctx)
    IN  Result(OK, <<>>, [i \in 1..Len(records) |-> UnmarshalAsset(records[i].value)])

\* variant: the world state is asked instead of the history
ChunkExistedInWorld(ctx, chunkId) ==
    Result(OK, <<>>, assetExists(ctx, chunkId))

ChunkExisted(ctx, chunkId) ==
    LET h == getAssetHistory(ctx, chunkId)
    IN  Result(OK, <<>>, Len(h) # 0)

ReadChunk(ctx, chunkId) ==
    LET r == readAsset(ctx, chunkId)
    IN  Result(r.err, <<>>, r.asset)

(***************************************************************************)
(* The state machine.  world maps each live key to its bytes, history maps *)
(* each key ever written to its entries, oldest first; now is the present  *)
(* instant, which stamps a transaction and is what the executing peer's    *)
(* time.Now() reads; last is the transaction just executed and its result; *)
(* fabric holds the transactions that clients have had endorsed and that   *)
(* are not committed yet, and the log of the committed ones; watchdog is   *)
(* the workload module that queries the expired chunks and deletes them.   *)
(***************************************************************************)
Empty == [k \in {} |-> Nil]

Ctx == [world |-> world, history |-> history, txTime |-> now, clock |-> now]

\* the keys a write set names
WrittenKeys(writes) == {writes[i].key : i \in 1..Len(writes)}

\* the last write a write set holds for a key
FinalWrite(writes, key) ==
    writes[CHOOSE i \in 1..Len(writes) :
              /\ writes[i].key = key
              /\ \A j \in 1..Len(writes) : writes[j].key = key => j <= i]

\* the world state with a write set committed
CommitWorld(w, writes) ==
    LET keys == WrittenKeys(writes)
        put == {k \in keys : ~FinalWrite(writes, k).isDelete}
        del == {k \in keys : FinalWrite(writes, k).isDelete}
    IN  [k \in (DOMAIN w \ del) \cup put |->
            IF k \in put THEN FinalWrite(writes, k).value ELSE w[k]]

\* the history with a write set committed at instant t: one entry per key
CommitHistory(h, writes, t) ==
    LET keys == WrittenKeys(writes)
        entry(k) == [timestamp |-> t, value |-> FinalWrite(writes, k).value,
                     isDelete |-> FinalWrite(writes, k).isDelete]
    IN  [k \in DOMAIN h \cup keys |->
            IF k \in keys
            THEN Append(IF k \in DOMAIN h THEN h[k] ELSE <<>>, entry(k))
            ELSE h[k]]

\* how many write sets the ledger has committed: the latest history entry of
\* each instant-and-key is one, and a write set names at least one key
RECURSIVE EntriesOf(_, _)
EntriesOf(h, keys) ==
    IF keys = {} THEN 0
    ELSE LET k == CHOOSE x \in keys : TRUE
         IN  Len(h[k]) + EntriesOf(h, keys \ {k})

Committed == EntriesOf(history, DOMAIN history)

\* a transaction that returned res ends: its write set is committed when it
\* succeeded and dropped when it failed
Commit(res, budget) ==
    /\ (res.err = OK /\ res.writes # <<>>) => Committed < budget
    /\ world' = IF res.err = OK THEN CommitWorld(world, res.writes) ELSE world
    /\ history' = IF res.err = OK THEN CommitHistory(history, res.writes, now)
                  ELSE history
    /\ UNCHANGED <<now, fabric, watchdog>>

NoCutoff == [form |-> "none", wall |-> 0, offset |-> 0]

\* the record of a transaction: its name, the chunk id or the cutoff it was
\* given, and its result
Called(op, id, cutoff, res) ==
    [op |-> op, id |-> id, cutoff |-> cutoff, err |-> res.err, ret |-> res.ret]

\* the cutoff strings a caller sends at instant t: not a timestamp, one second
\* ahead, the present instant written in the zone +01:00, one second ago
CutoffInputs(t) ==
    {[form |-> "text", wall |-> 0, offset |-> 0],
     [form |-> "rfc3339", wall |-> t + Second, offset |-> 0],
     [form |-> "rfc3339", wall |-> t + 3600000, offset |-> 3600000]}
    \cup (IF t >= Second THEN {[form |-> "rfc3339", wall |-> t - Second, offset |-> 0]}
          ELSE {})

\* the clients that submit transactions at the same time
Clients == {"a", "b"}

\* no transaction in flight
NoProposal == [op |-> "none"]

\* nothing in flight and nothing committed
NoTraffic == [pending |-> [c \in Clients |-> NoProposal], committed |-> <<>>]

\* the watchdog workload as its constructor leaves it: submitTransaction has
\* not been called, the list of expired chunk ids is empty, and no request
\* has been sent
NotStarted == [pc |-> "idle", expiredChunksList |-> <<>>, i |-> 0,
               owed |-> {}, sent |-> <<>>]

\* the instants at which transactions are submitted: the start (an even
\* second), an odd second, and 24h after it
Instants == {0, Second, Hours24 + Second}

Init ==
    /\ world = Empty
    /\ history = Empty
    /\ now = 0
    /\ last = Called("Init", "", NoCutoff, Fail(OK))
    /\ fabric = NoTraffic
    /\ watchdog = NotStarted

\* time passes
Tick ==
    /\ \E t \in Instants : t > now /\ now' = t
    /\ last' = Called("Tick", "", NoCutoff, Fail(OK))
    /\ UNCHANGED <<world, history, fabric, watchdog>>

AddChunkTx(ids, budget) ==
    \E id \in ids, enc \in ChunkInputs :
        LET res == AddChunk(Ctx, id, enc)
        IN  /\ Commit(res, budget)
            /\ last' = Called("AddChunk", id, NoCutoff, res)

AddChunkWithPolicyTx(ids, budget) ==
    \E id \in ids, enc \in ChunkInputs, pid \in PolicyInputs :
        LET res == AddChunkWithPolicy(Ctx, id, enc, pid)
        IN  /\ Commit(res, budget)
            /\ last' = Called("AddChunkWithPolicy", id, NoCutoff, res)

ApplyPolicyTx(ids, budget) ==
    \E id \in ids, enc \in ChunkInputs, pid \in PolicyInputs :
        LET res == ApplyPolicy(Ctx, id, enc, pid)
        IN  /\ Commit(res, budget)
            /\ last' = Called("ApplyPolicy", id, NoCutoff, res)

UpdateChunkExpiryDateTx(ids, budget) ==
    \E id \in ids :
        LET res == UpdateChunkExpiryDate(Ctx, id)
        IN  /\ Commit(res, budget)
            /\ last' = Called("UpdateChunkExpiryDate", id, NoCutoff, res)

GetExpiredChunksTx ==
    \E cutoff \in CutoffInputs(now) :
        LET res == GetExpiredChunks(Ctx, cutoff)
        IN  /\ Commit(res, 0)
            /\ last' = Called("GetExpiredChunks", "", cutoff, res)

DeleteChunkIfExpiredTx(ids, budget) ==
    \E id \in ids :
        LET res == DeleteChunkIfExpired(Ctx, id)
        IN  /\ Commit(res, budget)
            /\ last' = Called("DeleteChunkIfExpired", id, NoCutoff, res)

\* the arrays of at most n entries over a set
ArraysOf(S, n) == UNION {[1..k -> S] : k \in 0..n}

\* the data and the policy ids the callers of the batch send
BatchData == {"B64_ZERO", "B64_HIGH", "B64_BAD"}
BatchPolicies == {EnergyPolicyId, "no_such_policy"}

AddChunkWithPolicyBatchTx(budget) ==
    \E chunkId \in ArraysOf(ChunkIds, MaxBatch),
       chunkDataBase64 \in ArraysOf(BatchData, MaxBatch),
       policyId \in ArraysOf(BatchPolicies, MaxBatch) :
        LET res == AddChunkWithPolicyBatch(Ctx, chunkId, chunkDataBase64, policyId)
        IN  /\ Commit(res, budget)
            /\ last' = Called("AddChunkWithPolicyBatch", chunkId, NoCutoff, res)

GetAllAssetsTx ==
    LET res == GetAllAssets(Ctx)
    IN  /\ Commit(res, 0)
        /\ last' = Called("GetAllAssets", "", NoCutoff, res)

ChunkExistedTx(ids) ==
    \E id \in ids :
        LET res == ChunkExisted(Ctx, id)
        IN  /\ Commit(res, 0)
            /\ last' = Called("ChunkExisted", id, NoCutoff, res)

ReadChunkTx(ids) ==
    \E id \in ids :
        LET res == ReadChunk(Ctx, id)
        IN  /\ Commit(res, 0)
            /\ last' = Called("ReadChunk", id, NoCutoff, res)

(***************************************************************************)
(* Transactions of several clients at once.  The chaincode holds no lock:  *)
(* a transaction is executed by a peer on the committed state (Endorse),   *)
(* which gives its write set and the version of the key it read, and is    *)
(* committed later (Validate) only if that key still has the version read; *)
(* other transactions may be committed in between.  The version of a key   *)
(* is the number of its history entries, and none for an absent key.       *)
(***************************************************************************)
\* the operation a transaction names, executed on ctx
Invoke(ctx, op, id, enc, pid) ==
    CASE op = "AddChunk" -> AddChunk(ctx, id, enc)
      [] op = "AddChunkWithPolicy" -> AddChunkWithPolicy(ctx, id, enc, pid)
      [] op = "ApplyPolicy" -> ApplyPolicy(ctx, id, enc, pid)
      [] op = "UpdateChunkExpiryDate" -> UpdateChunkExpiryDate(ctx, id)

VersionOf(w, h, key) == IF key \in DOMAIN w THEN Len(h[key]) ELSE 0

\* variant: no read set is checked
ReadSetValidAlways(p) == TRUE

\* the key the transaction read has the version the transaction read
ReadSetValid(p) == VersionOf(world, history, p.id) = p.version

\* a client has a transaction executed; one that fails is not submitted
Endorse ==
    \E c \in Clients, id \in {"c1"}, enc \in {"B64_ZERO", "B64_HIGH"},
       pid \in {EnergyPolicyId},
       op \in {"AddChunk", "AddChunkWithPolicy", "ApplyPolicy", "UpdateChunkExpiryDate"} :
        LET res == Invoke(Ctx, op, id, enc, pid)
            p == [op |-> op, id |-> id, enc |-> enc, pid |-> pid, txTime |-> now,
                  version |-> VersionOf(world, history, id), writes |-> res.writes]
        IN  /\ fabric.pending[c] = NoProposal
            /\ fabric' = IF res.err = OK
                         THEN [fabric EXCEPT !.pending[c] = p] ELSE fabric
            /\ last' = Called(op, id, NoCutoff, res)
            /\ UNCHANGED <<world, history, now, watchdog>>

\* the transaction of a client is ordered: it is committed if its read set is
\* still valid, and dropped if not
Validate ==
    \E c \in Clients :
        LET p == fabric.pending[c]
        IN  /\ p # NoProposal
            /\ Len(fabric.committed) < MaxConcurrentWrites
            /\ IF ReadSetValid(p)
               THEN /\ world' = CommitWorld(world, p.writes)
                    /\ history' = CommitHistory(history, p.writes, p.txTime)
                    /\ fabric' = [pending |-> [fabric.pending EXCEPT ![c] = NoProposal],
                                  committed |-> Append(fabric.committed, p)]
                    /\ last' = [op |-> "Validate", id |-> p.id, cutoff |-> NoCutoff,
                                err |-> OK, ret |-> p.op]
               ELSE /\ fabric' = [fabric EXCEPT !.pending[c] = NoProposal]
                    /\ last' = [op |-> "Validate", id |-> p.id, cutoff |-> NoCutoff,
                                err |-> ErrReadConflict, ret |-> p.op]
                    /\ UNCHANGED <<world, history>>
            /\ UNCHANGED <<now, watchdog>>

\* the transactions txs from the i-th on, executed one after the other on ctx,
\* each at its own instant: the ledger they leave, and whether all succeeded
RECURSIVE Replay(_, _, _)
Replay(txs, i, ctx) ==
    IF i > Len(txs) THEN [ok |-> TRUE, world |-> ctx.world, history |-> ctx.history]
    ELSE LET p == txs[i]
             at == [ctx EXCEPT !.txTime = p.txTime, !.clock = p.txTime]
             res == Invoke(at, p.op, p.id, p.enc, p.pid)
         IN  IF res.err # OK
             THEN [ok |-> FALSE, world |-> ctx.world, history |-> ctx.history]
             ELSE Replay(txs, i + 1,
                     [ctx EXCEPT !.world = CommitWorld(ctx.world, res.writes),
                                 !.history = CommitHistory(ctx.history, res.writes,
                                                           p.txTime)])

NextConcurrent ==
    \/ Tick
    \/ Endorse
    \/ Validate

SpecConcurrent == Init /\ [][NextConcurrent]_vars

\* transactions on two chunk ids
Next ==
    \/ Tick
    \/ AddChunkTx(ChunkIds, MaxWrites)
    \/ AddChunkWithPolicyTx(ChunkIds, MaxWrites)
    \/ ApplyPolicyTx(ChunkIds, MaxWrites)
    \/ UpdateChunkExpiryDateTx(ChunkIds, MaxWrites)
    \/ GetExpiredChunksTx
    \/ DeleteChunkIfExpiredTx(ChunkIds, MaxWrites)

Spec == Init /\ [][Next]_vars

\* the whole life of one chunk id
NextLife ==
    \/ Tick
    \/ AddChunkTx({"c1"}, MaxLifeWrites)
    \/ AddChunkWithPolicyTx({"c1"}, MaxLifeWrites)
    \/ ApplyPolicyTx({"c1"}, MaxLifeWrites)
    \/ UpdateChunkExpiryDateTx({"c1"}, MaxLifeWrites)
    \/ GetExpiredChunksTx
    \/ DeleteChunkIfExpiredTx({"c1"}, MaxLifeWrites)
    \/ ChunkExistedTx({"c1"})
    \/ ReadChunkTx({"c1"})
    \/ GetAllAssetsTx

SpecLife == Init /\ [][NextLife]_vars

\* batches of creations on two chunk ids, and the listing of what they created;
\* a ledger of two ids holds at most two entries, which bounds the writes
NextBatch ==
    \/ AddChunkWithPolicyBatchTx(Cardinality(ChunkIds))
    \/ GetAllAssetsTx

SpecBatch == Init /\ [][NextBatch]_vars

\* two chunk ids that are created with a policy and have their expiry date
\* computed
NextPair ==
    \/ Tick
    \/ AddChunkWithPolicyTx(ChunkIds, MaxWrites)
    \/ UpdateChunkExpiryDateTx(ChunkIds, MaxWrites)

SpecPair == Init /\ [][NextPair]_vars

(***************************************************************************)
(* A ledger that already holds many assets, for the range scans.  Asset i  *)
(* of n is of the kind the pattern gives i mod 3, and was put there by the *)
(* transactions of its kind, all at instant 0.                             *)
(***************************************************************************)
SeedKinds == {"plain", "policy", "short", "long"}

\* the one-key ledger after a transaction that returned res at instant 0
After(ctx, res) ==
    [ctx EXCEPT !.world = CommitWorld(ctx.world, res.writes),
                !.history = CommitHistory(ctx.history, res.writes, 0)]

\* the ledger holding only key, after the transactions of its kind
Seeded(key, kind) ==
    LET c0 == [world |-> Empty, history |-> Empty, txTime |-> 0, clock |-> 0]
        enc == IF kind = "long" THEN "B64_HIGH" ELSE "B64_ZERO"
        c1 == After(c0, IF kind = "plain" THEN AddChunk(c0, key, enc)
                        ELSE AddChunkWithPolicy(c0, key, enc, EnergyPolicyId))
    IN  IF kind \in {"short", "long"}
        THEN After(c1, UpdateChunkExpiryDate(c1, key))
        ELSE c1

InitScan ==
    \E n \in 0..MaxScanAssets, pattern \in [0..2 -> SeedKinds] :
        LET seed(i) == Seeded(ScanKey(i), pattern[i % 3])
        IN  /\ world = [k \in {ScanKey(i) : i \in 1..n} |->
                           LET i == CHOOSE j \in 1..n : ScanKey(j) = k
                           IN  seed(i).world[k]]
            /\ history = [k \in {ScanKey(i) : i \in 1..n} |->
                           LET i == CHOOSE j \in 1..n : ScanKey(j) = k
                           IN  seed(i).history[k]]
            /\ now \in {ShortExpiry, LongExpiry, Hours24 + Second}
            /\ last = Called("Init", "", NoCutoff, Fail(OK))
            /\ fabric = NoTraffic
            /\ watchdog = NotStarted

NextScan == GetExpiredChunksTx

SpecScan == InitScan /\ [][NextScan]_vars

\* the pre-populated ledger listed in full, before and after the deletion of
\* its first key
NextAll ==
    \/ DeleteChunkIfExpiredTx({ScanKey(1)}, 2 * MaxScanAssets + 1)
    \/ GetAllAssetsTx

SpecAll == InitScan /\ [][NextAll]_vars

(***************************************************************************)
(* The watchdog workload.  submitTransaction loops: it queries the chunks  *)
(* expired at the present instant, appends the ids of the answer to        *)
(* expiredChunksList, and sends a DeleteChunkIfExpired for every entry of  *)
(* the list; it leaves the loop when an answer is empty.  Each request is  *)
(* awaited, so time may pass between any two of them.  owed holds the ids  *)
(* of the latest answer that no delete has been sent for since, and sent   *)
(* is the log of the deletes sent.                                         *)
(***************************************************************************)
\* new Date().toISOString(): the present instant in UTC
NowISOString == [form |-> "rfc3339", wall |-> now, offset |-> 0]

\* resString.length == 0: a failed call carries no result, and a nil slice
\* is returned as the empty text
ResultIsEmpty(res) == res.err # OK \/ Len(res.ret) = 0

\* the benchmark round calls submitTransaction
WatchdogStart ==
    /\ watchdog.pc = "idle"
    /\ watchdog' = [watchdog EXCEPT !.pc = "query"]
    /\ last' = Called("submitTransaction", "", NoCutoff, Fail(OK))
    /\ UNCHANGED <<world, history, now, fabric>>

\* the head of the loop: the query, and the ids of its answer pushed onto
\* expiredChunksList
WatchdogQuery ==
    /\ watchdog.pc = "query"
    /\ LET res == GetExpiredChunks(Ctx, NowISOString)
           ids == IF ResultIsEmpty(res) THEN <<>>
                  ELSE [j \in 1..Len(res.ret) |-> res.ret[j].ChunkId]
           list == watchdog.expiredChunksList \o ids
       IN  /\ world' = IF res.err = OK THEN CommitWorld(world, res.writes) ELSE world
           /\ history' = IF res.err = OK
                         THEN CommitHistory(history, res.writes, now) ELSE history
           /\ watchdog' = IF ResultIsEmpty(res) \/ Len(list) = 0
                          THEN [watchdog EXCEPT !.pc = "done", !.owed = {}]
                          ELSE [watchdog EXCEPT !.pc = "delete", !.i = 1,
                                                !.expiredChunksList = list,
                                                !.owed = {ids[j] : j \in 1..Len(ids)}]
           /\ last' = Called("GetExpiredChunks", "", NowISOString, res)
    /\ UNCHANGED <<now, fabric>>

\* one round of the for loop over expiredChunksList
WatchdogDelete ==
    /\ watchdog.pc = "delete"
    /\ LET chunkId == watchdog.expiredChunksList[watchdog.i]
           res == DeleteChunkIfExpired(Ctx, chunkId)
       IN  /\ world' = IF res.err = OK THEN CommitWorld(world, res.writes) ELSE world
           /\ history' = IF res.err = OK
                         THEN CommitHistory(history, res.writes, now) ELSE history
           /\ watchdog' = [watchdog EXCEPT
                              !.pc = IF watchdog.i = Len(watchdog.expiredChunksList)
                                     THEN "query" ELSE "delete",
                              !.i = @ + 1,
                              !.owed = @ \ {chunkId},
                              !.sent = Append(@, chunkId)]
           /\ last' = Called("DeleteChunkIfExpired", chunkId, NoCutoff, res)
    /\ UNCHANGED <<now, fabric>>

NextWatchdog ==
    \/ WatchdogStart
    \/ WatchdogQuery
    \/ WatchdogDelete
    \/ Tick

\* the pre-populated ledgers of at most MaxWatchdogAssets assets
InitWatchdog == InitScan /\ Cardinality(DOMAIN world) <= MaxWatchdogAssets

SpecWatchdog == InitWatchdog /\ [][NextWatchdog]_vars

(***************************************************************************)
(* The iterators of the scans.  GetExpiredChunks and GetAllAssets iterate  *)
(* over a range of the world state and getAssetHistory over the history of *)
(* a key; the peer may refuse the iterator, fail a Next, or hand out a     *)
(* record that does not decode or a timestamp that does not convert.  A    *)
(* call is modelled by the stub and iterator calls it makes.               *)
(***************************************************************************)
IteratorUsers == {"GetExpiredChunks", "GetAllAssets", "getAssetHistory"}

\* what the peer does to a call: nothing, or one fault at the at-th record
Faults ==
    {[kind |-> "none", at |-> 0], [kind |-> "open", at |-> 0]}
        \cup {[kind |-> k, at |-> i] :
                 k \in {"next", "decode", "timestamp"}, i \in 1..MaxFaultAt}

\* the for loop of fn over records from record i on: the iterator calls it
\* makes and the way it is left
RECURSIVE IterateLoop(_, _, _, _, _)
IterateLoop(fn, records, i, fault, cutoff) ==
    IF i > Len(records) THEN [calls |-> <<>>, exit |-> "completed"]
    ELSE IF fault.kind = "next" /\ fault.at = i
    THEN [calls |-> <<"Next">>, exit |-> "next error"]
    ELSE IF /\ fault.kind = "decode" /\ fault.at = i
            /\ fn = "getAssetHistory" => Len(records[i].value) > 0
    THEN [calls |-> <<"Next">>, exit |-> "decode error"]
    ELSE IF fn = "getAssetHistory" /\ fault.kind = "timestamp" /\ fault.at = i
    THEN [calls |-> <<"Next">>, exit |-> "timestamp error"]
    ELSE IF /\ fn = "GetExpiredChunks"
            /\ IsExpiredBefore(UnmarshalAsset(records[i].value), cutoff)
            /\ 0 + 1 = PageCap
    THEN [calls |-> <<"Next">>, exit |-> "break"]
    ELSE LET rest == IterateLoop(fn, records, i + 1, fault, cutoff)
         IN  [calls |-> <<"Next">> \o rest.calls, exit |-> rest.exit]

\* variant: the iterator is closed after the loop, not by a deferred call
IterateClosingAfterLoop(ctx, fn, id, fault) ==
    IF fault.kind = "open" THEN [calls |-> <<>>, exit |-> "no iterator"]
    ELSE LET records == IF fn = "getAssetHistory" THEN GetHistoryForKey(ctx, id)
                        ELSE GetStateByRange(ctx)
             loop == IterateLoop(fn, records, 1, fault, ctx.clock)
         IN  [calls |-> <<"Open">> \o loop.calls
                          \o (IF loop.exit \in {"completed", "break"}
                              THEN <<"Close">> ELSE <<>>),
              exit |-> loop.exit]

\* one call of fn: the iterator is obtained, Close is deferred, the loop runs
Iterate(ctx, fn, id, fault) ==
    IF fault.kind = "open" THEN [calls |-> <<>>, exit |-> "no iterator"]
    ELSE LET records == IF fn = "getAssetHistory" THEN GetHistoryForKey(ctx, id)
                        ELSE GetStateByRange(ctx)
             loop == IterateLoop(fn, records, 1, fault, ctx.clock)
         IN  [calls |-> <<"Open">> \o loop.calls \o <<"Close">>, exit |-> loop.exit]

IterateTx ==
    \E fn \in IteratorUsers, fault \in Faults :
        LET res == Iterate(Ctx, fn, ScanKey(1), fault)
        IN  /\ last' = [op |-> "Iterate", id |-> fn, cutoff |-> NoCutoff,
                        err |-> IF res.exit \in {"completed", "break"} THEN OK
                                ELSE ErrStore,
                        ret |-> res]
            /\ UNCHANGED <<world, history, now, fabric, watchdog>>

NextIterate == IterateTx

\* the pre-populated ledgers that hold at most one record more than the peer
\* may fail at
InitIterate == InitScan /\ Cardinality(DOMAIN world) <= MaxFaultAt + 1

SpecIterate == InitIterate /\ [][NextIterate]_vars

(***************************************************************************)
(* The energy policy applied to chunk data of chosen samples.  Samples     *)
(* count 1e-3: a sequence of SampleInputs has a mean energy that is not a  *)
(* number, is zero, lies below every threshold, between two of them, or    *)
(* above all of them.                                                      *)
(***************************************************************************)
SampleInputs ==
    { <<>>,                        \* 0/0
      <<0, 0>>,                    \* 0
      <<1>>,                       \* 1.0e-6: below Z, Y and X
      <<2, 2, 0, 0, 0, 0, 0>>,     \* 1.14e-6: above Z, below Y and X
      <<2, 0, -2, 0, 0>>,          \* 1.6e-6: above Z and Y, below X
      <<-2>> }                     \* 4.0e-6: above Z, Y and X

\* the chunk data whose 18 sample sequences are those of arr, in the order
\* energyPolicyLogic reads them
ChunkOfSamples(arr) ==
    [Id      |-> <<99, 49>>,
     Sensor0 |-> [x |-> arr[1], y |-> arr[2], z |-> arr[3]],
     Sensor1 |-> [x |-> arr[4], y |-> arr[5], z |-> arr[6]],
     Sensor2 |-> [x |-> arr[7], y |-> arr[8], z |-> arr[9]],
     Sensor3 |-> [x |-> arr[10], y |-> arr[11], z |-> arr[12]],
     Sensor4 |-> [x |-> arr[13], y |-> arr[14], z |-> arr[15]],
     Sensor5 |-> [x |-> arr[16], y |-> arr[17], z |-> arr[18]]]

\* chunk data that is quiet but for two of its sequences
InitEnergy ==
    /\ world = Empty
    /\ history = Empty
    /\ now = 0
    /\ fabric = NoTraffic
    /\ watchdog = NotStarted
    /\ \E quiet \in {<<>>, <<0, 0>>, <<1>>}, p \in 1..18, q \in 1..18,
          s \in SampleInputs, t \in SampleInputs :
          LET arr == [i \in 1..18 |-> IF i = p THEN s ELSE IF i = q THEN t ELSE quiet]
          IN  last = [op |-> "ChunkData", id |-> "", cutoff |-> NoCutoff,
                      err |-> OK, ret |-> [data |-> ChunkOfSamples(arr), period |-> 0]]

\* the policy is applied to the chunk data
ApplyEnergyPolicy ==
    /\ last.op = "ChunkData"
    /\ LET res == applyPolicyById(last.ret.data, EnergyPolicyId, now)
       IN  last' = [op |-> "applyPolicyById", id |-> "", cutoff |-> NoCutoff,
                    err |-> res.err,
                    ret |-> [data |-> last.ret.data, period |-> res.period]]
    /\ UNCHANGED <<world, history, now, fabric, watchdog>>

NextEnergy == ApplyEnergyPolicy

SpecEnergy == InitEnergy /\ [][NextEnergy]_vars

(***************************************************************************)
(* Claims.                                                                 *)
(***************************************************************************)
\* the asset stored under a live key
AssetAt(id) == UnmarshalAsset(world[id])

\* the key was deleted at some point of its history
WasDeleted(id) ==
    id \in DOMAIN history /\ \E i \in 1..Len(history[id]) : history[id][i].isDelete

\* C1: a successful GetExpiredChunks returns at most 30 assets, whatever the
\* ledger holds.
C1_AtMostPageCap ==
    (last.op = "GetExpiredChunks" /\ last.err = OK) => Len(last.ret) <= PageCap

\* C2: a chunk id that was created and later deleted is absent from the world
\* state ever after: no creation under it succeeds.
C2_NeverRecreated ==
    \A id \in DOMAIN history : WasDeleted(id) => id \notin DOMAIN world

\* C3: the expiry date of every live asset that has one is the timestamp of
\* the first entry of its id's history plus the asset's stored expiry period.
C3_ExpiryDateFromFirstEntry ==
    \A id \in DOMAIN world :
        AssetAt(id).ExpiryDate # ZeroTime =>
            /\ id \in DOMAIN history /\ Len(history[id]) > 0
            /\ AssetAt(id).ExpiryDate
                   = history[id][1].timestamp + AssetAt(id).ExpiryPeriod

\* C3 witness: an expiry date was just computed for an asset whose id was
\* first written at a later instant than the start, and whose history holds
\* entries of different instants
C3_Witness ==
    /\ last.op \in {"UpdateChunkExpiryDate", "ApplyPolicy"}
    /\ last.err = OK
    /\ last.id \in DOMAIN world
    /\ AssetAt(last.id).ExpiryDate # ZeroTime
    /\ history[last.id][1].timestamp > 0
    /\ history[last.id][Len(history[last.id])].timestamp
           > history[last.id][1].timestamp

\* C4: a step in which a live id becomes absent is a successful
\* DeleteChunkIfExpired of that id, taken when the asset had a policy applied
\* and an expiry date that is set and not later than the present instant.
C4_OnlyExpiredAreDeleted ==
    [][\A id \in DOMAIN world :
          id \notin DOMAIN world' =>
              /\ last'.op = "DeleteChunkIfExpired"
              /\ last'.id = id
              /\ last'.err = OK
              /\ AssetAt(id).AppliedPolicyId # ""
              /\ AssetAt(id).ExpiryDate # ZeroTime
              /\ AssetAt(id).ExpiryDate <= now]_vars

\* C4 witness: DeleteChunkIfExpired has just removed an asset
C4_Witness ==
    /\ last.op = "DeleteChunkIfExpired"
    /\ last.err = OK
    /\ last.id \notin DOMAIN world
    /\ WasDeleted(last.id)

\* the instant the cutoff of the last GetExpiredChunks names
LastCutoff == ParseRFC3339(last.cutoff).time

\* the assets a successful GetExpiredChunks has returned
Returned == {last.ret[i] : i \in 1..Len(last.ret)}

\* C5: every asset GetExpiredChunks returns has an expiry date that is set
\* and strictly before the cutoff; a live asset whose date is unset or equals
\* the cutoff is not returned.
C5_OnlyExpiredAreReturned ==
    (last.op = "GetExpiredChunks" /\ last.err = OK) =>
        /\ \A a \in Returned :
              a.ExpiryDate # ZeroTime /\ a.ExpiryDate < LastCutoff
        /\ \A id \in DOMAIN world :
              (AssetAt(id).ExpiryDate = ZeroTime \/ AssetAt(id).ExpiryDate = LastCutoff)
                  => AssetAt(id) \notin Returned

\* C5 witness: a scan returned assets while the ledger held an asset with a
\* policy and no expiry date, and an asset expiring exactly at the cutoff
C5_Witness ==
    /\ last.op = "GetExpiredChunks"
    /\ last.err = OK
    /\ Len(last.ret) > 0
    /\ \E id \in DOMAIN world :
          AssetAt(id).AppliedPolicyId # "" /\ AssetAt(id).ExpiryDate = ZeroTime
    /\ \E id \in DOMAIN world : AssetAt(id).ExpiryDate = LastCutoff

\* the clocks two peers executing the same transaction may read: they differ
\* by a second
ReplicaClocks == {now, now + Second}

\* the context of a peer whose clock reads c
OnPeer(c) == [Ctx EXCEPT !.clock = c]

\* C6: a transaction gives the same result and the same writes on every
\* replica: on the same ledger state, whatever the clocks of two peers read.
C6_SameOnEveryReplica ==
    \A c1 \in ReplicaClocks, c2 \in ReplicaClocks :
        /\ \A id \in ChunkIds, enc \in ChunkInputs, pid \in PolicyInputs :
              /\ AddChunkWithPolicy(OnPeer(c1), id, enc, pid)
                     = AddChunkWithPolicy(OnPeer(c2), id, enc, pid)
              /\ ApplyPolicy(OnPeer(c1), id, enc, pid)
                     = ApplyPolicy(OnPeer(c2), id, enc, pid)
        /\ \A id \in ChunkIds :
              DeleteChunkIfExpired(OnPeer(c1), id) = DeleteChunkIfExpired(OnPeer(c2), id)
        /\ \A cutoff \in CutoffInputs(now) :
              GetExpiredChunks(OnPeer(c1), cutoff) = GetExpiredChunks(OnPeer(c2), cutoff)

\* C7: AddChunk on an id that is live fails with AlreadyExists whatever data
\* it is given, and leaves the ledger as it was.
C7_AddChunkOnLiveId ==
    [][(last'.op = "AddChunk" /\ last'.id \in DOMAIN world) =>
          /\ last'.err = ErrAlreadyExists
          /\ world' = world
          /\ history' = history]_vars

\* C7 witness: an AddChunk was refused on an asset that AddChunk had created
C7_Witness ==
    /\ last.op = "AddChunk"
    /\ last.err = ErrAlreadyExists
    /\ last.id \in DOMAIN world
    /\ AssetAt(last.id).AppliedPolicyId = ""
    /\ Len(history[last.id]) = 1

\* C8: ApplyPolicy on a live asset, given decodable data whose hash is not the
\* stored DataHash, fails with IntegrityMismatch for every policy id and
\* issues no write.
C8_IntegrityMismatch ==
    \A id \in DOMAIN world, enc \in ChunkInputs, pid \in PolicyInputs :
        LET dec == base64DecodeJson(enc)
        IN  (dec.err = OK /\ hash(dec.chunk) # AssetAt(id).DataHash) =>
                ApplyPolicy(Ctx, id, enc, pid) = Fail(ErrIntegrity)

\* C8 witness: an ApplyPolicy has failed with IntegrityMismatch and the asset
\* is as its creation left it
C8_Witness ==
    /\ last.op = "ApplyPolicy"
    /\ last.err = ErrIntegrity
    /\ last.id \in DOMAIN world
    /\ world[last.id] = history[last.id][Len(history[last.id])].value

\* UpdateChunkExpiryDate on the id would fail with NoChange and write nothing
NoChangeFor(id) == UpdateChunkExpiryDate(Ctx, id) = Fail(ErrNoChange)

\* C9: right after a successful UpdateChunkExpiryDate or ApplyPolicy on an id
\* a further UpdateChunkExpiryDate of it fails with NoChange and writes
\* nothing, and so it does in every later state in which the asset still holds
\* the expiry date that call stored.
C9_UpdateIsIdempotent ==
    /\ (last.op \in {"UpdateChunkExpiryDate", "ApplyPolicy"} /\ last.err = OK)
           => NoChangeFor(last.id)
    /\ \A id \in DOMAIN world :
           AssetAt(id).ExpiryDate # ZeroTime => NoChangeFor(id)

\* C9 witness: a second UpdateChunkExpiryDate was refused with NoChange on an
\* asset whose date the first one had stored
C9_Witness ==
    /\ last.op = "UpdateChunkExpiryDate"
    /\ last.err = ErrNoChange
    /\ Len(history[last.id]) = 2
    /\ UnmarshalAsset(history[last.id][1].value).ExpiryDate = ZeroTime
    /\ UnmarshalAsset(history[last.id][1].value).AppliedPolicyId # ""
    /\ AssetAt(last.id).ExpiryDate # ZeroTime

\* C10: for a live asset with a policy and an expiry date, DeleteChunkIfExpired
\* fails with NotYetExpired, writing nothing, while the date is after the
\* present instant, and deletes the asset once the present instant is past it.
C10_DeleteWhenExpired ==
    \A id \in DOMAIN world :
        (AssetAt(id).AppliedPolicyId # "" /\ AssetAt(id).ExpiryDate # ZeroTime) =>
            /\ AssetAt(id).ExpiryDate > now =>
                   DeleteChunkIfExpired(Ctx, id) = Fail(ErrNotYetExpired)
            /\ AssetAt(id).ExpiryDate < now =>
                   DeleteChunkIfExpired(Ctx, id) = Result(OK, <<DelState(id)>>, NoRet)

\* C10 witness: an asset was deleted at an instant past its expiry date, after
\* its id had been written at an instant before that date
C10_Witness ==
    /\ last.op = "DeleteChunkIfExpired"
    /\ last.err = OK
    /\ last.id \notin DOMAIN world
    /\ LET h == history[last.id]
       IN  /\ Len(h) >= 3
           /\ h[Len(h)].isDelete
           /\ UnmarshalAsset(h[Len(h) - 1].value).ExpiryDate < now
           /\ UnmarshalAsset(h[Len(h) - 1].value).ExpiryDate > h[Len(h) - 1].timestamp

\* the batches a caller may send: three arrays of at most MaxBatch entries
BatchInputs ==
    ArraysOf(ChunkIds, MaxBatch) \X ArraysOf(BatchData, MaxBatch)
        \X ArraysOf(BatchPolicies, MaxBatch)

\* some entry of the batch b names a live id, undecodable data or a policy id
\* that is not registered
HasBadEntry(b) ==
    \E k \in 1..Len(b[1]) :
        \/ b[1][k] \in DOMAIN world
        \/ k <= Len(b[2]) /\ base64DecodeJson(b[2][k]).err # OK
        \/ k <= Len(b[3]) /\ b[3][k] \notin AvailablePolicies

\* C11: a batch of equal-length arrays with an entry that names a live id,
\* undecodable data or an unregistered policy fails and issues no write, and
\* every failing batch issues no write.
C11_BatchAllOrNothing ==
    \A b \in BatchInputs :
        LET res == AddChunkWithPolicyBatch(Ctx, b[1], b[2], b[3])
        IN  /\ (Len(b[1]) = Len(b[2]) /\ Len(b[1]) = Len(b[3]) /\ HasBadEntry(b))
                   => res.err # OK
            /\ res.err # OK => res.writes = <<>>

\* C11 witness: a batch of two entries failed on its second entry, whose id is
\* live, and the id of its first entry, which passed the checks, is absent
C11_Witness ==
    /\ last.op = "AddChunkWithPolicyBatch"
    /\ last.err = ErrAlreadyExists
    /\ Len(last.id) = 2
    /\ last.id[2] \in DOMAIN world
    /\ last.id[1] \notin DOMAIN world
    /\ last.id[1] \notin DOMAIN history

\* C12: a batch whose three arrays are not all of the same length fails with
\* SizeMismatch and issues no write, whatever its entries are.
C12_BatchSizeMismatch ==
    \A b \in BatchInputs :
        (Len(b[1]) # Len(b[2]) \/ Len(b[1]) # Len(b[3]) \/ Len(b[2]) # Len(b[3]))
            => AddChunkWithPolicyBatch(Ctx, b[1], b[2], b[3]) = Fail(ErrSizeMismatch)

\* C12 witness: a batch naming two ids failed with SizeMismatch and neither id
\* has ever been written
C12_Witness ==
    /\ last.op = "AddChunkWithPolicyBatch"
    /\ last.err = ErrSizeMismatch
    /\ Len(last.id) = 2
    /\ last.id[1] # last.id[2]
    /\ \A k \in 1..2 : last.id[k] \notin DOMAIN history

\* C13: a step that leaves an id live leaves the DataHash and the ChunkId
\* stored under it as they were: from its creation to its deletion no
\* transaction, failing or not, changes them.
C13_DataHashImmutable ==
    [][\A id \in DOMAIN world :
          id \in DOMAIN world' =>
              /\ UnmarshalAsset(world'[id]).DataHash = AssetAt(id).DataHash
              /\ UnmarshalAsset(world'[id]).ChunkId = AssetAt(id).ChunkId]_vars

\* C13 witness: an asset has had two different policies applied since its
\* creation, and holds the DataHash its creation stored
C13_Witness ==
    /\ last.op = "ApplyPolicy"
    /\ last.err = OK
    /\ last.id \in DOMAIN world
    /\ LET h == history[last.id]
       IN  /\ Len(h) = 3
           /\ ~h[1].isDelete /\ ~h[2].isDelete
           /\ UnmarshalAsset(h[1].value).AppliedPolicyId = ""
           /\ UnmarshalAsset(h[2].value).AppliedPolicyId # AssetAt(last.id).AppliedPolicyId
           /\ AssetAt(last.id).DataHash = UnmarshalAsset(h[1].value).DataHash
           /\ AssetAt(last.id).DataHash # 0

\* C14: ChunkExisted of an id returns true exactly when the history of the id
\* is not empty: false for an id never written, true for a live id, and true
\* for an id that was deleted and is absent, for which ReadChunk fails with
\* NotFound.
C14_ChunkExistedIffHistory ==
    \A id \in ChunkIds :
        /\ ChunkExisted(Ctx, id)
               = Result(OK, <<>>, id \in DOMAIN history /\ history[id] # <<>>)
        /\ id \notin DOMAIN history => ChunkExisted(Ctx, id).ret = FALSE
        /\ id \in DOMAIN world => ChunkExisted(Ctx, id).ret = TRUE
        /\ (WasDeleted(id) /\ id \notin DOMAIN world) =>
               /\ ChunkExisted(Ctx, id).ret = TRUE
               /\ ReadChunk(Ctx, id).err = ErrNotFound

\* C14 witness: ChunkExisted has answered true for an id that was created,
\* deleted and is absent from the world state
C14_Witness ==
    /\ last.op = "ChunkExisted"
    /\ last.err = OK
    /\ last.ret = TRUE
    /\ last.id \notin DOMAIN world
    /\ WasDeleted(last.id)
    /\ ReadChunk(Ctx, last.id).err = ErrNotFound

\* well-formed assets: a policy id or none, a chunk id, the hash of decodable
\* data, an expiry date or none, an expiry period or none
WellFormedAssets ==
    [AppliedPolicyId : {""} \cup AvailablePolicies,
     ChunkId         : ChunkIds,
     DataHash        : {hash(d) : d \in DecodedChunks},
     ExpiryDate      : {ZeroTime, 0, Hours24},
     ExpiryPeriod    : {0, ShortExpiry, Hours48}]

MeanEnergyAt(d, i) ==
    LET sensor == <<d.Sensor0, d.Sensor1, d.Sensor2, d.Sensor3, d.Sensor4,
                    d.Sensor5>>[(i \div 3) + 1]
        axis == <<sensor.x, sensor.y, sensor.z>>[(i % 3) + 1]
    IN  computeSignalMeanEnergy(axis)

\* C16: signal_energy_policy_v1 returns 127200 ms exactly when one of the 18
\* mean energies exceeds the threshold of its axis, value index i being
\* compared with the X, Y or Z threshold as i mod 3 is 0, 1 or 2, and 31800 ms
\* otherwise.
C16_EnergyPolicyAxisThresholds ==
    last.op = "applyPolicyById" =>
        LET overAxis == \E i \in 0..17 :
                           Exceeds(MeanEnergyAt(last.ret.data, i),
                                   <<ThrX, ThrY, ThrZ>>[(i % 3) + 1])
        IN  /\ last.err = OK
            /\ last.ret.period \in {ShortExpiry, LongExpiry}
            /\ last.ret.period = LongExpiry <=> overAxis

\* C16 witness: the policy chose the long expiry for chunk data whose only
\* loud value is on the Z axis of the last sensor, with an energy that is
\* under the Y and X thresholds
C16_Witness ==
    /\ last.op = "applyPolicyById"
    /\ last.ret.period = LongExpiry
    /\ Exceeds(MeanEnergyAt(last.ret.data, 17), ThrZ)
    /\ ~Exceeds(MeanEnergyAt(last.ret.data, 17), ThrY)
    /\ \A i \in 0..16 : ~Exceeds(MeanEnergyAt(last.ret.data, i), ThrZ)

\* every sample sequence of the chunk data is non-empty and holds only zeros
AllZeroSamples(d) ==
    \A i \in 0..17 :
        LET sensor == <<d.Sensor0, d.Sensor1, d.Sensor2, d.Sensor3, d.Sensor4,
                        d.Sensor5>>[(i \div 3) + 1]
            axis == <<sensor.x, sensor.y, sensor.z>>[(i % 3) + 1]
        IN  Len(axis) > 0 /\ \A k \in 1..Len(axis) : axis[k] = 0

\* C17: for chunk data whose samples are all zero, each of the 18 mean
\* energies is 0 and signal_energy_policy_v1 gives 31800 ms; AddChunkWithPolicy
\* of such data with that policy stores ExpiryPeriod = 31800 ms, and so does
\* every live asset that holds the hash of such data and that policy id.
C17_ZeroSamplesShortExpiry ==
    \A enc \in ChunkInputs :
        LET dec == base64DecodeJson(enc)
        IN  (dec.err = OK /\ AllZeroSamples(dec.chunk)) =>
                /\ \A i \in 0..17 :
                      /\ MeanEnergyAt(dec.chunk, i).num = 0
                      /\ MeanEnergyAt(dec.chunk, i).den > 0
                /\ applyPolicyById(dec.chunk, EnergyPolicyId, now)
                       = [err |-> OK, period |-> ShortExpiry]
                /\ \A id \in ChunkIds \ DOMAIN world :
                      LET res == AddChunkWithPolicy(Ctx, id, enc, EnergyPolicyId)
                      IN  /\ res.err = OK
                          /\ Len(res.writes) = 1
                          /\ UnmarshalAsset(res.writes[1].value).ExpiryPeriod
                                 = ShortExpiry
                /\ \A id \in DOMAIN world :
                      (/\ AssetAt(id).AppliedPolicyId = EnergyPolicyId
                       /\ AssetAt(id).DataHash = hash(dec.chunk))
                          => AssetAt(id).ExpiryPeriod = ShortExpiry

\* C17 witness: AddChunkWithPolicy has created an asset from all-zero data
\* with the energy policy, and the asset stores the short expiry period
C17_Witness ==
    /\ last.op = "AddChunkWithPolicy"
    /\ last.err = OK
    /\ last.id \in DOMAIN world
    /\ Len(history[last.id]) = 1
    /\ AllZeroSamples(base64DecodeJson("B64_ZERO").chunk)
    /\ AssetAt(last.id).DataHash = hash(base64DecodeJson("B64_ZERO").chunk)
    /\ AssetAt(last.id).AppliedPolicyId = EnergyPolicyId
    /\ AssetAt(last.id).ExpiryPeriod = ShortExpiry

\* C18: DeleteChunkIfExpired of a live asset fails, deleting nothing, with
\* PolicyNotApplied when its policy id is empty, else with ExpiryNotComputed
\* when its expiry date is unset, else with NotYetExpired when the date is
\* after the present instant; in every other case it deletes the asset.
C18_DeletePrecedence ==
    \A id \in DOMAIN world :
        LET a == AssetAt(id)
            res == DeleteChunkIfExpired(Ctx, id)
        IN  /\ a.AppliedPolicyId = "" => res = Fail(ErrPolicyNotApplied)
            /\ (a.AppliedPolicyId # "" /\ a.ExpiryDate = ZeroTime)
                   => res = Fail(ErrExpiryNotComputed)
            /\ (a.AppliedPolicyId # "" /\ a.ExpiryDate # ZeroTime /\ a.ExpiryDate > now)
                   => res = Fail(ErrNotYetExpired)
            /\ (a.AppliedPolicyId # "" /\ a.ExpiryDate # ZeroTime /\ a.ExpiryDate <= now)
                   => res = Result(OK, <<DelState(id)>>, NoRet)

\* C18 witness: DeleteChunkIfExpired has failed with PolicyNotApplied on a
\* live asset that has neither a policy nor an expiry date, and the asset is
\* still there
C18_Witness ==
    /\ last.op = "DeleteChunkIfExpired"
    /\ last.err = ErrPolicyNotApplied
    /\ last.id \in DOMAIN world
    /\ AssetAt(last.id).AppliedPolicyId = ""
    /\ AssetAt(last.id).ExpiryDate = ZeroTime

\* C19: UpdateChunkExpiryDate of a live asset whose policy id is empty or
\* whose expiry period is zero fails with PolicyNotApplied and writes nothing;
\* such is every asset whose latest write is an AddChunk.
C19_UpdateNeedsPolicy ==
    /\ \A id \in DOMAIN world :
          (AssetAt(id).AppliedPolicyId = "" \/ AssetAt(id).ExpiryPeriod = 0)
              => UpdateChunkExpiryDate(Ctx, id) = Fail(ErrPolicyNotApplied)
    /\ (last.op = "AddChunk" /\ last.err = OK)
          => UpdateChunkExpiryDate(Ctx, last.id) = Fail(ErrPolicyNotApplied)

\* C19 witness: UpdateChunkExpiryDate has failed with PolicyNotApplied on an
\* asset that AddChunk created, and the asset is as AddChunk wrote it
C19_Witness ==
    /\ last.op = "UpdateChunkExpiryDate"
    /\ last.err = ErrPolicyNotApplied
    /\ last.id \in DOMAIN world
    /\ Len(history[last.id]) = 1
    /\ world[last.id] = history[last.id][1].value
    /\ AssetAt(last.id).AppliedPolicyId = ""
    /\ AssetAt(last.id).ExpiryPeriod = 0

\* C20: GetExpiredChunks of a cutoff that parses fails with FutureDateRejected,
\* returning no asset, when the instant the cutoff names is later than the
\* present instant, and succeeds when it equals or precedes the present
\* instant, in whatever zone the cutoff is written.
C20_FutureCutoffRejected ==
    \A cutoff \in CutoffInputs(now) :
        LET p == ParseRFC3339(cutoff)
            res == GetExpiredChunks(Ctx, cutoff)
        IN  p.err = OK =>
                /\ p.time > now => res = Fail(ErrFutureDate)
                /\ p.time <= now => res.err = OK

\* C20 witness: GetExpiredChunks has refused a cutoff later than the present
\* instant while the ledger held an asset whose expiry date precedes that
\* cutoff
C20_Witness ==
    /\ last.op = "GetExpiredChunks"
    /\ last.err = ErrFutureDate
    /\ last.ret = <<>>
    /\ LastCutoff > now
    /\ \E id \in DOMAIN world : IsExpiredBefore(AssetAt(id), LastCutoff)

\* the result carries no put and no delete when it is an error
NoWriteOnError(res) == res.err # OK => res.writes = <<>>

\* C21: a call of AddChunk, AddChunkWithPolicy, ApplyPolicy,
\* UpdateChunkExpiryDate, DeleteChunkIfExpired, GetExpiredChunks or ReadChunk
\* that returns an error has issued no put and no delete, whatever its
\* arguments and the ledger are, so the ledger stays as it was.
C21_NoWriteOnFailure ==
    /\ \A id \in ChunkIds :
          /\ \A enc \in ChunkInputs :
                /\ NoWriteOnError(AddChunk(Ctx, id, enc))
                /\ \A pid \in PolicyInputs :
                      /\ NoWriteOnError(AddChunkWithPolicy(Ctx, id, enc, pid))
                      /\ NoWriteOnError(ApplyPolicy(Ctx, id, enc, pid))
          /\ NoWriteOnError(UpdateChunkExpiryDate(Ctx, id))
          /\ NoWriteOnError(DeleteChunkIfExpired(Ctx, id))
          /\ ReadChunk(Ctx, id).writes = <<>>
    /\ \A cutoff \in CutoffInputs(now) : GetExpiredChunks(Ctx, cutoff).writes = <<>>

\* C21 witness: DeleteChunkIfExpired has failed with NotYetExpired and the
\* asset and the history of its id are as the transaction before left them
C21_Witness ==
    /\ last.op = "DeleteChunkIfExpired"
    /\ last.err = ErrNotYetExpired
    /\ last.id \in DOMAIN world
    /\ ~history[last.id][Len(history[last.id])].isDelete
    /\ world[last.id] = history[last.id][Len(history[last.id])].value
    /\ AssetAt(last.id).ExpiryDate > now

\* C22: with transactions of several clients in flight at once, the ledger is
\* the one that the committed transactions give when executed one after the
\* other, each to completion, in the order of their commits, every one of
\* them succeeding; so a chunk id that was not live is created by at most one
\* of the transactions that found it absent.
C22_OperationsAreAtomic ==
    LET serial == Replay(fabric.committed, 1,
                         [world |-> Empty, history |-> Empty, txTime |-> 0, clock |-> 0])
    IN  /\ serial.ok
        /\ serial.world = world
        /\ serial.history = history
        /\ \A i \in 1..Len(fabric.committed), j \in 1..Len(fabric.committed) :
              (/\ i < j
               /\ fabric.committed[i].id = fabric.committed[j].id
               /\ fabric.committed[i].op \in {"AddChunk", "AddChunkWithPolicy"})
                  => fabric.committed[j].op \notin {"AddChunk", "AddChunkWithPolicy"}

\* C22 witness: two clients had a creation of the same absent id executed,
\* the first was committed and the second has just been dropped
C22_Witness ==
    /\ last.op = "Validate"
    /\ last.err = ErrReadConflict
    /\ last.ret = "AddChunk"
    /\ Len(fabric.committed) = 1
    /\ fabric.committed[1].op = "AddChunkWithPolicy"
    /\ fabric.committed[1].id = last.id
    /\ Len(history[last.id]) = 1

\* C23: a step in which ApplyPolicy succeeds on an id with data d and policy p
\* leaves the asset with AppliedPolicyId = p, ExpiryPeriod = the period p gives
\* for d, and ExpiryDate = the timestamp of the first history entry of the id
\* plus that period, written by one put that adds one history entry, whatever
\* policy, period and date the asset held before.
C23_ApplyPolicyStoresPolicyPeriodDate ==
    [][(last'.op = "ApplyPolicy" /\ last'.err = OK) =>
         \A enc \in ChunkInputs, pid \in PolicyInputs :
            LET res == ApplyPolicy(Ctx, last'.id, enc, pid)
            IN  (res.err = OK /\ world' = CommitWorld(world, res.writes)) =>
                  LET period == applyPolicyById(base64DecodeJson(enc).chunk, pid, now).period
                      a == UnmarshalAsset(world'[last'.id])
                  IN  /\ a.AppliedPolicyId = pid
                      /\ a.ExpiryPeriod = period
                      /\ a.ExpiryDate = history[last'.id][1].timestamp + period
                      /\ Len(res.writes) = 1
                      /\ Len(history'[last'.id]) = Len(history[last'.id]) + 1]_vars

\* C23 witness: ApplyPolicy has succeeded on an asset that held another
\* policy, another period and an expiry date
C23_Witness ==
    /\ last.op = "ApplyPolicy"
    /\ last.err = OK
    /\ last.id \in DOMAIN world
    /\ LET h == history[last.id]
           before == UnmarshalAsset(h[Len(h) - 1].value)
       IN  /\ Len(h) >= 2
           /\ ~h[Len(h) - 1].isDelete
           /\ before.AppliedPolicyId \notin {"", AssetAt(last.id).AppliedPolicyId}
           /\ before.ExpiryPeriod \notin {0, AssetAt(last.id).ExpiryPeriod}
           /\ before.ExpiryDate \notin {ZeroTime, AssetAt(last.id).ExpiryDate}

\* C24: a step in which UpdateChunkExpiryDate succeeds on an id changes the
\* ExpiryDate of that asset and nothing else: its AppliedPolicyId, ChunkId,
\* DataHash and ExpiryPeriod are the ones it held, and every other asset of
\* the world state is the one it was.
C24_UpdateChangesOnlyExpiryDate ==
    [][(last'.op = "UpdateChunkExpiryDate" /\ last'.err = OK) =>
         /\ DOMAIN world' = DOMAIN world
         /\ last'.id \in DOMAIN world
         /\ \A k \in DOMAIN world \ {last'.id} : world'[k] = world[k]
         /\ LET before == UnmarshalAsset(world[last'.id])
                after == UnmarshalAsset(world'[last'.id])
            IN  /\ after.AppliedPolicyId = before.AppliedPolicyId
                /\ after.ChunkId = before.ChunkId
                /\ after.DataHash = before.DataHash
                /\ after.ExpiryPeriod = before.ExpiryPeriod
                /\ after.ExpiryDate # before.ExpiryDate]_vars

\* C24 witness: UpdateChunkExpiryDate has succeeded on an asset with a policy
\* while another asset is live
C24_Witness ==
    /\ last.op = "UpdateChunkExpiryDate"
    /\ last.err = OK
    /\ DOMAIN world = ChunkIds
    /\ AssetAt(last.id).AppliedPolicyId # ""
    /\ AssetAt(last.id).ExpiryDate # ZeroTime
    /\ Len(history[last.id]) = 2

\* the asset of a live id has a policy and no expiry date
DateNotComputed(id) ==
    /\ id \in DOMAIN world
    /\ AssetAt(id).AppliedPolicyId # ""
    /\ AssetAt(id).ExpiryDate = ZeroTime

\* C25: a step in which AddChunkWithPolicy succeeds on an id with data d and
\* policy p stores an asset with AppliedPolicyId = p, ExpiryPeriod = the
\* period p gives for d and no ExpiryDate; as long as an asset has a policy
\* and no expiry date, DeleteChunkIfExpired of it fails with
\* ExpiryNotComputed and no GetExpiredChunks returns it; and only a
\* successful UpdateChunkExpiryDate or ApplyPolicy on the id gives the asset
\* an expiry date.
C25_AddChunkWithPolicyLeavesDateUnset ==
    /\ [](\A id \in ChunkIds :
            DateNotComputed(id) =>
               /\ DeleteChunkIfExpired(Ctx, id) = Fail(ErrExpiryNotComputed)
               /\ \A cutoff \in CutoffInputs(now) :
                     LET res == GetExpiredChunks(Ctx, cutoff)
                     IN  \A i \in 1..Len(res.ret) : res.ret[i].ChunkId # id)
    /\ [][/\ (last'.op = "AddChunkWithPolicy" /\ last'.err = OK) =>
               \A enc \in ChunkInputs, pid \in PolicyInputs :
                  LET res == AddChunkWithPolicy(Ctx, last'.id, enc, pid)
                  IN  (res.err = OK /\ world' = CommitWorld(world, res.writes)) =>
                        LET a == UnmarshalAsset(world'[last'.id])
                        IN  /\ a.AppliedPolicyId = pid
                            /\ a.ExpiryPeriod =
                                  applyPolicyById(base64DecodeJson(enc).chunk, pid, now).period
                            /\ a.ExpiryDate = ZeroTime
          /\ \A id \in ChunkIds :
                (/\ DateNotComputed(id)
                 /\ id \in DOMAIN world'
                 /\ UnmarshalAsset(world'[id]).ExpiryDate # ZeroTime)
                    => /\ last'.op \in {"UpdateChunkExpiryDate", "ApplyPolicy"}
                       /\ last'.err = OK
                       /\ last'.id = id]_vars

\* C25 witness: DeleteChunkIfExpired has just been refused with
\* ExpiryNotComputed on an asset that AddChunkWithPolicy created and whose
\* period has passed since
C25_Witness ==
    /\ last.op = "DeleteChunkIfExpired"
    /\ last.err = ErrExpiryNotComputed
    /\ DateNotComputed(last.id)
    /\ Len(history[last.id]) = 1
    /\ now > history[last.id][1].timestamp + AssetAt(last.id).ExpiryPeriod

\* C26: a step in which AddChunk succeeds on an id with data d stores the
\* asset with ChunkId = id, DataHash = hash(d), no policy, a zero period and
\* no expiry date, and appends exactly one entry, holding that asset, to the
\* history of the id.
C26_AddChunkStoresBareAsset ==
    [][(last'.op = "AddChunk" /\ last'.err = OK) =>
         \A enc \in ChunkInputs :
            LET res == AddChunk(Ctx, last'.id, enc)
                id == last'.id
                before == IF id \in DOMAIN history THEN history[id] ELSE <<>>
            IN  (res.err = OK /\ world' = CommitWorld(world, res.writes)) =>
                  /\ UnmarshalAsset(world'[id]) =
                        [AppliedPolicyId |-> "",
                         ChunkId         |-> id,
                         DataHash        |-> hash(base64DecodeJson(enc).chunk),
                         ExpiryDate      |-> ZeroTime,
                         ExpiryPeriod    |-> 0]
                  /\ Len(history'[id]) = Len(before) + 1
                  /\ SubSeq(history'[id], 1, Len(before)) = before
                  /\ history'[id][Len(before) + 1] =
                        [timestamp |-> now, value |-> world'[id], isDelete |-> FALSE]]_vars

\* C26 witness: AddChunk has succeeded on an id that never was on the ledger
C26_Witness ==
    /\ last.op = "AddChunk"
    /\ last.err = OK
    /\ last.id \in DOMAIN world
    /\ Len(history[last.id]) = 1
    /\ AssetAt(last.id).DataHash = hash(base64DecodeJson("B64_HIGH").chunk)

\* C27: a successful batch issues one put per entry, in the order of the
\* entries, and once it is committed every id it names is live with the
\* policy id of its entry, the hash of the data of its entry, the period that
\* policy gives for that data, and no expiry date.
C27_BatchStoresEveryEntry ==
    \A b \in BatchInputs :
        LET res == AddChunkWithPolicyBatch(Ctx, b[1], b[2], b[3])
            after == CommitWorld(world, res.writes)
        IN  res.err = OK =>
              /\ Len(res.writes) = Len(b[1])
              /\ \A i \in 1..Len(b[1]) :
                    /\ res.writes[i].key = b[1][i]
                    /\ ~res.writes[i].isDelete
                    /\ b[1][i] \in DOMAIN after
                    /\ UnmarshalAsset(after[b[1][i]]) =
                          [AppliedPolicyId |-> b[3][i],
                           ChunkId         |-> b[1][i],
                           DataHash        |-> hash(base64DecodeJson(b[2][i]).chunk),
                           ExpiryDate      |-> ZeroTime,
                           ExpiryPeriod    |->
                              applyPolicyById(base64DecodeJson(b[2][i]).chunk,
                                              b[3][i], now).period]

\* the number of calls named c among calls
CountOf(calls, c) == Cardinality({i \in 1..Len(calls) : calls[i] = c})

\* C28: whenever GetExpiredChunks, GetAllAssets or getAssetHistory returns,
\* whether its loop completed, broke off, met a failing Next or met a record
\* that does not decode, the iterator it obtained has been closed: Close is
\* the last call it made, once, and a call that obtained no iterator made none.
C28_IteratorsAreClosed ==
    last.op = "Iterate" =>
        LET calls == last.ret.calls
        IN  /\ CountOf(calls, "Close") = CountOf(calls, "Open")
            /\ CountOf(calls, "Open") = IF last.ret.exit = "no iterator" THEN 0 ELSE 1
            /\ calls # <<>> => calls[1] = "Open" /\ calls[Len(calls)] = "Close"

\* C28 witness: GetAllAssets was left on its second record, which did not
\* decode, after the calls Open, Next, Next, Close
C28_Witness ==
    /\ last.op = "Iterate"
    /\ last.id = "GetAllAssets"
    /\ last.ret.exit = "decode error"
    /\ last.ret.calls = <<"Open", "Next", "Next", "Close">>

\* the policy ids callers send that are not registered
UnregisteredPolicies == PolicyInputs \ AvailablePolicies

\* C29 as stated: with a policy id that is not registered, AddChunkWithPolicy
\* of an absent id and ApplyPolicy on a live asset fail with PolicyNotFound
\* and write nothing, whatever the data is.
C29_AlwaysPolicyNotFound ==
    \A id \in ChunkIds, enc \in ChunkInputs, pid \in UnregisteredPolicies :
        /\ id \notin DOMAIN world
              => AddChunkWithPolicy(Ctx, id, enc, pid) = Fail(ErrPolicyNotFound)
        /\ id \in DOMAIN world
              => ApplyPolicy(Ctx, id, enc, pid) = Fail(ErrPolicyNotFound)

\* C29: with a policy id that is not registered, AddChunkWithPolicy and
\* ApplyPolicy fail and write nothing, whatever the ledger and the data are;
\* the error is PolicyNotFound when the checks made before the policy is
\* looked up pass: the id is absent and the data decodes for
\* AddChunkWithPolicy, the asset is live, the data decodes and its hash is
\* the stored one for ApplyPolicy.
C29_UnregisteredPolicyFails ==
    \A id \in ChunkIds, enc \in ChunkInputs, pid \in UnregisteredPolicies :
        LET add == AddChunkWithPolicy(Ctx, id, enc, pid)
            apply == ApplyPolicy(Ctx, id, enc, pid)
            dec == base64DecodeJson(enc)
        IN  /\ add.err # OK /\ add.writes = <<>>
            /\ apply.err # OK /\ apply.writes = <<>>
            /\ (id \notin DOMAIN world /\ dec.err = OK)
                  => add.err = ErrPolicyNotFound
            /\ (id \in DOMAIN world /\ dec.err = OK
                    /\ AssetAt(id).DataHash = hash(dec.chunk))
                  => apply.err = ErrPolicyNotFound

\* C29 witness: ApplyPolicy with a policy id that is not registered has just
\* failed with PolicyNotFound on a live asset, which is the one its creation
\* stored
C29_Witness ==
    /\ last.op = "ApplyPolicy"
    /\ last.err = ErrPolicyNotFound
    /\ last.id \in DOMAIN world
    /\ Len(history[last.id]) = 1
    /\ world[last.id] = history[last.id][1].value

\* C30: a GetAllAssets that has just returned lists exactly the live assets:
\* as many entries as there are live ids, however many, each live id in
\* exactly one entry that is its asset, and no entry for an id that is not
\* live, deleted or never created.
C30_GetAllAssetsListsLiveAssets ==
    (last.op = "GetAllAssets" /\ last.err = OK) =>
        /\ Len(last.ret) = Cardinality(DOMAIN world)
        /\ \A id \in DOMAIN world :
              /\ Cardinality({i \in 1..Len(last.ret) : last.ret[i].ChunkId = id}) = 1
              /\ \E i \in 1..Len(last.ret) : last.ret[i] = AssetAt(id)
        /\ \A i \in 1..Len(last.ret) : last.ret[i].ChunkId \in DOMAIN world

\* C30 witness: GetAllAssets has returned the assets, as many as the cap of
\* GetExpiredChunks or more, that are live after the first one was deleted
C30_Witness ==
    /\ last.op = "GetAllAssets"
    /\ last.err = OK
    /\ Len(last.ret) >= PageCap
    /\ WasDeleted(ScanKey(1))
    /\ ScanKey(1) \notin DOMAIN world

\* C31: getAssetHistory of an id gives one record per entry of the history of
\* the id, in the order of the ledger, oldest first; the record of an entry
\* without payload, a deletion, holds an asset with the id and nothing else
\* and the entry's delete flag; the record of a put holds the asset that put
\* wrote, which for the latest entry of a live id is the live asset.
C31_HistoryRecordsPerEntry ==
    \A id \in ChunkIds :
        LET records == getAssetHistory(Ctx, id)
            entries == IF id \in DOMAIN history THEN history[id] ELSE <<>>
        IN  /\ Len(records) = Len(entries)
            /\ \A i \in 1..Len(entries) :
                  /\ records[i].Timestamp = entries[i].timestamp
                  /\ records[i].IsDelete = entries[i].isDelete
                  /\ i > 1 => records[i - 1].Timestamp <= records[i].Timestamp
                  /\ records[i].Record =
                        IF entries[i].isDelete
                        THEN [AppliedPolicyId |-> "", ChunkId |-> id, DataHash |-> 0,
                              ExpiryDate |-> ZeroTime, ExpiryPeriod |-> 0]
                        ELSE UnmarshalAsset(entries[i].value)
            /\ id \in DOMAIN world =>
                  /\ Len(records) > 0
                  /\ ~records[Len(records)].IsDelete
                  /\ records[Len(records)].Record = AssetAt(id)

\* C31 witness: ChunkExisted has read the history of an id that was created,
\* given an expiry date, deleted and created again
C31_Witness ==
    /\ last.op = "ChunkExisted"
    /\ last.ret = TRUE
    /\ last.id \in DOMAIN world
    /\ Len(history[last.id]) = 4
    /\ history[last.id][3].isDelete

\* C32: at every instant example_policy_v1 gives every chunk data the same
\* result, without error: 48h when the second of the minute on the clock is
\* even and 24h when it is odd, never zero; and an asset that
\* AddChunkWithPolicy has just created with it holds the period of the
\* second of its creation.
C32_ExamplePolicyByClockSecond ==
    LET second == (now \div Second) % 60
        expected == IF second % 2 = 0 THEN 48 * 3600 * Second ELSE 24 * 3600 * Second
    IN  /\ \A enc \in ChunkInputs :
              base64DecodeJson(enc).err = OK =>
                 LET r == applyPolicyById(base64DecodeJson(enc).chunk, ExamplePolicyId, now)
                 IN  r.err = OK /\ r.period = expected /\ r.period # 0
        /\ (/\ last.op = "AddChunkWithPolicy" /\ last.err = OK
            /\ AssetAt(last.id).AppliedPolicyId = ExamplePolicyId)
               => AssetAt(last.id).ExpiryPeriod = expected

\* C32 witness: AddChunkWithPolicy has created an asset with example_policy_v1
\* at an odd second and the asset holds 24h
C32_Witness ==
    /\ last.op = "AddChunkWithPolicy"
    /\ last.err = OK
    /\ AssetAt(last.id).AppliedPolicyId = ExamplePolicyId
    /\ (now \div Second) % 2 = 1
    /\ AssetAt(last.id).ExpiryPeriod = Hours24

\* C33: the mean energy of an empty sample sequence is 0/0, which is above no
\* axis threshold; so signal_energy_policy_v1 gives chunk data whose 18
\* sequences are all empty the short expiry, 31800 ms, and no error.
C33_EmptySamplesShortExpiry ==
    last.op = "applyPolicyById" =>
        LET d == last.ret.data
            empty == {i \in 0..17 : MeanEnergyAt(d, i).den = 0}
        IN  /\ \A i \in empty :
                  /\ MeanEnergyAt(d, i).num = 0
                  /\ \A thr \in {ThrX, ThrY, ThrZ} : ~Exceeds(MeanEnergyAt(d, i), thr)
            /\ empty = 0..17 => (last.err = OK /\ last.ret.period = 31800)
            /\ (\A i \in (0..17) \ empty :
                   ~Exceeds(MeanEnergyAt(d, i), <<ThrX, ThrY, ThrZ>>[(i % 3) + 1]))
                  => (last.err = OK /\ last.ret.period = 31800)

\* C33 witness: the policy has been applied to chunk data whose 18 sequences
\* are all empty and gave the short expiry
C33_Witness ==
    /\ last.op = "applyPolicyById"
    /\ \A i \in 0..17 : MeanEnergyAt(last.ret.data, i).den = 0
    /\ last.err = OK
    /\ last.ret.period = ShortExpiry

\* the asset has no policy and no period, or a registered policy and a
\* period; and an expiry date only with a policy
PolicyFieldsAgree(a) ==
    /\ a.AppliedPolicyId \in {""} \cup AvailablePolicies
    /\ a.AppliedPolicyId = "" <=> a.ExpiryPeriod = 0
    /\ a.ExpiryDate # ZeroTime => a.AppliedPolicyId # ""

\* C34: in every reachable state every live asset has an AppliedPolicyId that
\* is empty or registered, empty exactly when its ExpiryPeriod is zero, and
\* an ExpiryDate only when the AppliedPolicyId is not empty; and so has every
\* asset a batch of one entry would write.
C34_PolicyFieldsAgree ==
    /\ \A id \in DOMAIN world : PolicyFieldsAgree(AssetAt(id))
    /\ \A id \in ChunkIds, enc \in BatchData, pid \in BatchPolicies :
          LET res == AddChunkWithPolicyBatch(Ctx, <<id>>, <<enc>>, <<pid>>)
          IN  \A i \in 1..Len(res.writes) :
                 PolicyFieldsAgree(UnmarshalAsset(res.writes[i].value))

\* C34 witness: ApplyPolicy has given a policy, a period and an expiry date
\* to an asset that AddChunk created with none of them
C34_Witness ==
    /\ last.op = "ApplyPolicy"
    /\ last.err = OK
    /\ last.id \in DOMAIN world
    /\ Len(history[last.id]) = 2
    /\ UnmarshalAsset(history[last.id][1].value).AppliedPolicyId = ""
    /\ UnmarshalAsset(history[last.id][1].value).ExpiryPeriod = 0
    /\ AssetAt(last.id).AppliedPolicyId \in AvailablePolicies
    /\ AssetAt(last.id).ExpiryPeriod # 0
    /\ AssetAt(last.id).ExpiryDate # ZeroTime

\* C35: an asset that a successful GetExpiredChunks returns can be deleted:
\* on the ledger as the query saw it, DeleteChunkIfExpired of its id succeeds
\* at the instant of the query and at every later one.
C35_ReturnedAssetsAreDeletable ==
    \A cutoff \in CutoffInputs(now) :
        LET res == GetExpiredChunks(Ctx, cutoff)
        IN  res.err = OK =>
              \A i \in 1..Len(res.ret), t \in Instants \cup {now} :
                  t >= now =>
                     DeleteChunkIfExpired([Ctx EXCEPT !.txTime = t, !.clock = t],
                                          res.ret[i].ChunkId)
                        = Result(OK, <<DelState(res.ret[i].ChunkId)>>, NoRet)

\* C35 witness: GetExpiredChunks has returned live assets at an instant that
\* is not the last one, while other assets have a date that is not reached
C35_Witness ==
    /\ last.op = "GetExpiredChunks"
    /\ last.err = OK
    /\ Len(last.ret) > 1
    /\ \A i \in 1..Len(last.ret) :
          /\ last.ret[i].ChunkId \in DOMAIN world
          /\ AssetAt(last.ret[i].ChunkId) = last.ret[i]
    /\ \E id \in DOMAIN world : AssetAt(id).ExpiryDate >= now
    /\ \E t \in Instants : t > now

\* C36: in every reachable state UpdateChunkExpiryDate of a live asset whose
\* ExpiryDate is set fails with NoChange and writes nothing, so it succeeds
\* only on an asset without a date; and a step that leaves an asset live with
\* another date than the one it held is a successful ApplyPolicy on its id.
C36_UpdateOnlySetsUnsetDate ==
    /\ [](\A id \in DOMAIN world :
            AssetAt(id).ExpiryDate # ZeroTime
               => UpdateChunkExpiryDate(Ctx, id) = Fail(ErrNoChange))
    /\ [][\A id \in DOMAIN world :
             (/\ id \in DOMAIN world'
              /\ AssetAt(id).ExpiryDate # ZeroTime
              /\ UnmarshalAsset(world'[id]).ExpiryDate # AssetAt(id).ExpiryDate)
                 => /\ last'.op = "ApplyPolicy"
                    /\ last'.err = OK
                    /\ last'.id = id]_vars

\* C36 witness: UpdateChunkExpiryDate has just been refused with NoChange on
\* an asset whose stored date ApplyPolicy had replaced by another
C36_Witness ==
    /\ last.op = "UpdateChunkExpiryDate"
    /\ last.err = ErrNoChange
    /\ last.id \in DOMAIN world
    /\ LET h == history[last.id]
       IN  /\ Len(h) = 3
           /\ ~h[2].isDelete
           /\ UnmarshalAsset(h[2].value).ExpiryDate
                  \notin {ZeroTime, AssetAt(last.id).ExpiryDate}

\* C37: GetExpiredChunks, GetAllAssets, ChunkExisted and ReadChunk issue no
\* put and no delete in any reachable state, whether they succeed or fail,
\* and a step of one of them leaves the world state and every history as
\* they were; in particular an asset without an expiry date has none after a
\* GetExpiredChunks.
C37_QueriesWriteNothing ==
    /\ [](/\ \A cutoff \in CutoffInputs(now) : GetExpiredChunks(Ctx, cutoff).writes = <<>>
          /\ GetAllAssets(Ctx).writes = <<>>
          /\ \A id \in ChunkIds :
                /\ ChunkExisted(Ctx, id).writes = <<>>
                /\ ReadChunk(Ctx, id).writes = <<>>)
    /\ [][last'.op \in {"GetExpiredChunks", "GetAllAssets", "ChunkExisted", "ReadChunk"}
             => (world' = world /\ history' = history)]_vars

\* C37 witness: GetExpiredChunks has succeeded, returning nothing, on a ledger
\* whose only asset has a policy, no expiry date and one history entry
C37_Witness ==
    /\ last.op = "GetExpiredChunks"
    /\ last.err = OK
    /\ last.ret = <<>>
    /\ DOMAIN world = {"c1"}
    /\ DateNotComputed("c1")
    /\ Len(history["c1"]) = 1
    /\ now > history["c1"][1].timestamp + AssetAt("c1").ExpiryPeriod

\* the batch b has arrays of one length, names only absent ids, decodable
\* data and registered policies, and names some id at two positions
ValidBatchWithRepeatedId(b) ==
    /\ Len(b[1]) = Len(b[2]) /\ Len(b[1]) = Len(b[3])
    /\ ~HasBadEntry(b)
    /\ \E i, j \in 1..Len(b[1]) : i # j /\ b[1][i] = b[1][j]

\* C38: a batch that names the same absent id at two positions, with valid
\* data and policy ids, leaves no partial result: it does not return an
\* error after a put; as the code has it, it succeeds with one put per entry.
C38_RepeatedIdLeavesNoPartialBatch ==
    \A b \in BatchInputs :
        ValidBatchWithRepeatedId(b) =>
            LET res == AddChunkWithPolicyBatch(Ctx, b[1], b[2], b[3])
            IN  /\ res.err # OK => res.writes = <<>>
                /\ res.err = OK
                /\ Len(res.writes) = Len(b[1])
                /\ DOMAIN CommitWorld(world, res.writes)
                      = DOMAIN world \cup {b[1][i] : i \in 1..Len(b[1])}

\* C38 witness: a batch naming one absent id twice has succeeded and the id
\* is live with one history entry
C38_Witness ==
    /\ last.op = "AddChunkWithPolicyBatch"
    /\ last.err = OK
    /\ Len(last.id) = 2
    /\ last.id[1] = last.id[2]
    /\ last.id[1] \in DOMAIN world
    /\ Len(history[last.id[1]]) = 1

\* the assets handed to updateAsset: the stored ones and the zero asset
UpdateCandidates == {UnmarshalAsset(world[k]) : k \in DOMAIN world} \cup {ZeroAsset}

WatchdogDeletesReturnedIds == watchdog.pc = "query" => watchdog.owed = {}

\* no chunk id occurs twice in the log of the deletes sent
WatchdogSendsOncePerId ==
    \A j, k \in 1..Len(watchdog.sent) :
        watchdog.sent[j] = watchdog.sent[k] => j = k

\* a query with an empty answer ends the loop, and an ended loop sends nothing
WatchdogStopsOnEmpty ==
    /\ (watchdog.pc = "query" /\ last'.op = "GetExpiredChunks"
           /\ (last'.err # OK \/ Len(last'.ret) = 0)) => watchdog'.pc = "done"
    /\ watchdog.pc = "done" => watchdog' = watchdog

\* C39: the watchdog loop sends DeleteChunkIfExpired for every chunk id a
\* GetExpiredChunks query returned before it issues the next query, sends it
\* at most once per chunk id over the whole run, and ends as soon as a query
\* returns an empty result.
C39_WatchdogDeletesEachIdOnce ==
    /\ []WatchdogDeletesReturnedIds
    /\ []WatchdogSendsOncePerId
    /\ [][WatchdogStopsOnEmpty]_vars

====
